---- MODULE Spec2Model ----
(***************************************************************************)
(* CoreDNS-GSLB: the backend selection engine (pickResponse and the seven  *)
(* pickBackendWith* policies), the DNS responder (ServeDNS,                *)
(* handleIPRecord, pickAllAddresses), the health check cycles              *)
(* (runHealthChecks) and the adaptive probe scheduler of one record; the   *)
(* registry of a zone's records under the initial load and reloads         *)
(* (loadConfigFile, reloadConfig, updateRecords); and the use of           *)
(* GSLB.Mutex and Backend.mutex by queries, reloads and health checks.     *)
(***************************************************************************)
EXTENDS Integers, Sequences, FiniteSets, TLC

\* ------------------------------------------------------------------ bounds
MaxBackends == 2        \* backends of the record
MaxPriority == 1        \* priorities range over -1 .. MaxPriority
MaxWeight == 2          \* declared weights range over 0 .. MaxWeight
MaxResponseTime == 2    \* recorded response times range over 0 .. MaxResponseTime
MaxCoord == 1           \* abstract coordinates range over 0 .. MaxCoord
MaxCalls == 4           \* round-robin queries counted per run
MaxTime == 3            \* the clock runs over 0 .. MaxTime
MaxProbes == 2          \* health checks configured per backend: 0 .. MaxProbes
MaxInFlight == 1        \* probe cycles of one backend in flight at a time
MaxInterval == 1        \* scrape_interval ranges over 1 .. MaxInterval
MaxMultiplier == 2      \* healthcheck_idle_multiplier ranges over 1 .. MaxMultiplier
MaxIdleTimeout == 1     \* resolution_idle_timeout ranges over 0 .. MaxIdleTimeout
MaxRetries == 2         \* scrape_retries ranges over 0 .. MaxRetries
MaxRecords == 3         \* records loaded at start-up: 0 .. MaxRecords
MaxBatchSize == 2       \* batch_size_start ranges over 1 .. MaxBatchSize
MaxStagger == 3         \* max_stagger_start ranges over -MaxStagger .. MaxStagger
MaxSubnets == 2         \* entries of the location map file: 0 .. MaxSubnets
MaxLoads == 2           \* loadCustomLocationsMap calls per run
MaxReloads == 2         \* updateBackend calls beside one selection or one cycle

VARIABLES
    mode,             \* Record.Mode
    backends,         \* Record.Backends, in configured order
    geo,              \* GSLB.GeoIPCountryDB / GeoIPCityDB / GeoIPASNDB / LocationMap
    RoundRobinIndex,  \* GSLB.RoundRobinIndex: domain -> cursor (absent until first stored)
    rrCalls,          \* round-robin queries answered so far, and their record type
    last,             \* the most recent selection call: its arguments and its result
    now,              \* time.Now(), in abstract time units
    LastResolution,   \* GSLB.LastResolution: domain -> time of the last query received
    reply,            \* the most recent ServeDNS call: the question and what was answered
    conf,             \* Record.ScrapeInterval, GSLB.ResolutionIdleTimeout, GSLB.HealthcheckIdleMultiplier
    ctxDone,          \* which contexts are canceled: ctx (the server's), recordCtx (the record's)
    sched,            \* the record's scrapeBackends task: its context, its timer, its last tick
    cycles,           \* per backend, the runHealthChecks calls in flight
    done,             \* per backend, the most recent runHealthChecks call that completed:
                      \* whether every probe returned true, whether one timed out
    Records,          \* GSLB.Records: zone -> name -> the Record registered (a pointer)
    heap,             \* the Record objects allocated so far, by pointer
    tasks,            \* the scrapeBackends goroutines started: their record and context
    canceled,         \* the records whose cancelFunc was called
    waiting,          \* the records batched at the initial load and not yet started
    event,            \* the most recent step of the registry: a load, a start, a probe cycle
    pc,               \* per goroutine of the lock model, the statement it is at
    Mutex,            \* GSLB.Mutex: the goroutine holding it for writing, those reading
    mutex,            \* Backend.mutex of one backend, likewise
    check,            \* one HTTPHealthCheck.PerformCheck call: its inputs, its attempts, its result
    stagger,          \* one start-up: BatchSizeStart, MaxStaggerStart, the records, the groups made
    LocationMap,      \* GSLB.LocationMap: nil, or subnet -> location
    mapLoad,          \* the most recent loadCustomLocationsMap call: its file, what it returned
    answers,          \* the round-robin queries of a mixed sequence: record type and answer
    shared,           \* the fields of a record's backends that goroutines share without a lock
    frames            \* the locals of a pickBackendWithWeighted and of a runHealthChecks call

vars == <<mode, backends, geo, RoundRobinIndex, rrCalls, last, now, LastResolution, reply,
          conf, ctxDone, sched, cycles, done, Records, heap, tasks, canceled, waiting,
          event, pc, Mutex, mutex, check, stagger, LocationMap, mapLoad,
          answers, shared, frames>>

\* the variables the selection calls leave alone
serveVars == <<now, LastResolution, reply>>
\* the variables the DNS responder leaves alone
probeVars == <<conf, ctxDone, sched, cycles, done>>
\* the registry and its reload
reloadVars == <<Records, heap, tasks, canceled, waiting, event>>
\* the goroutines of the lock model and the two locks
lockVars == <<pc, Mutex, mutex>>
\* the selection engine's record and what its calls leave behind
selectVars == <<mode, backends, geo, RoundRobinIndex, rrCalls, last>>
\* a health check call, a start-up, the location map
unitVars == <<check, stagger, LocationMap, mapLoad, answers>>
\* a selection and a health check cycle step by step, beside a reload
raceVars == <<shared, frames>>

\* ------------------------------------------------------------ value spaces
Fqdn == "app.example.com."
RecordTypes == {"A", "AAAA"}
Families == {"v4", "v6"}
Priorities == (0 - 1) .. MaxPriority
Weights == 0 .. MaxWeight
ResponseTimes == 0 .. MaxResponseTime
Coords == 0 .. MaxCoord
Idx == 1 .. MaxBackends

\* Client addresses and what the GeoIP databases and the CIDR arithmetic say of them.
ClientIPs == {"81.2.69.142", "10.0.0.50", "203.0.113.9"}
NoClient == "-"

\* GeoIPCountryDB.Country(ip): err, or a record with Country.IsoCode
CountryLookup(ip) ==
    CASE ip = "81.2.69.142" -> [err |-> FALSE, IsoCode |-> "GB"]
      [] ip = "10.0.0.50"   -> [err |-> FALSE, IsoCode |-> ""]
      [] OTHER              -> [err |-> TRUE,  IsoCode |-> ""]

\* GeoIPCityDB.City(ip): err, or a record with City.Names["en"] and Location
CityLookup(ip) ==
    CASE ip = "81.2.69.142" -> [err |-> FALSE, Name |-> "London", Coord |-> 1]
      [] ip = "10.0.0.50"   -> [err |-> FALSE, Name |-> "", Coord |-> 0]
      [] OTHER              -> [err |-> TRUE,  Name |-> "", Coord |-> 0]

\* GeoIPASNDB.ASN(ip): err, or a record with AutonomousSystemNumber
ASNLookup(ip) ==
    CASE ip = "81.2.69.142" -> [err |-> FALSE, AutonomousSystemNumber |-> 64500]
      [] ip = "10.0.0.50"   -> [err |-> FALSE, AutonomousSystemNumber |-> 0]
      [] OTHER              -> [err |-> TRUE,  AutonomousSystemNumber |-> 0]

\* net.ParseCIDR(subnet) succeeds and ipnet.Contains(clientIP)
SubnetContains(subnet, ip) ==
    \/ subnet = "81.2.69.0/24" /\ ip = "81.2.69.142"
    \/ subnet = "10.0.0.0/8"   /\ ip = "10.0.0.50"

\* a location map of two disjoint subnets of one site
CustomLocations ==
    [s \in {"81.2.69.0/24", "10.0.0.0/8"} |-> "eu-west"]

EmptyMap == [s \in {} |-> ""]

GeoLoaded == [CountryDB |-> TRUE, CityDB |-> TRUE, ASNDB |-> TRUE, LocationMap |-> CustomLocations]
GeoAbsent == [CountryDB |-> FALSE, CityDB |-> FALSE, ASNDB |-> FALSE, LocationMap |-> EmptyMap]

\* ---------------------------------------------------------------- Backend
\* Address: the family net.ParseIP finds in the string, and the host it names.
\* Coord stands for the (Latitude, Longitude) pair.
NewBackend(i, fam, en, al) ==
    [Address |-> [fam |-> fam, host |-> i], Priority |-> 0, Weight |-> 1,
     Enable |-> en, Alive |-> al, Country |-> "", City |-> "", ASN |-> "",
     Location |-> "", CoordinatesSet |-> FALSE, Coord |-> 0, ResponseTime |-> 0,
     HealthChecks |-> <<>>, LastHealthcheck |-> 0]

GetAddress(b) == b.Address
GetPriority(b) == b.Priority
BadGetWeight(b) == b.Weight
GetWeight(b) == IF b.Weight <= 0 THEN 1 ELSE b.Weight
IsEnabled(b) == b.Enable
GetResponseTime(b) == b.ResponseTime
HasCoordinates(b) == b.CoordinatesSet
BadIsHealthy(b) == b.Alive
IsHealthy(b) == b.Alive /\ b.Enable

\* net.ParseIP(ip).To4() != nil and net.ParseIP(ip).To16() != nil
To4(ip) == ip.fam = "v4"
To16(ip) == ip.fam \in {"v4", "v6"}

\* the address-family test every policy but the GeoIP tiers applies
FamilyMatch(recordType, ip) ==
    \/ recordType = "A" /\ To4(ip)
    \/ recordType = "AAAA" /\ To16(ip) /\ ~To4(ip)

Ok(ips) == [ok |-> TRUE, ips |-> ips]
Err == [ok |-> FALSE, ips |-> <<>>]

\* ------------------------------------------------------- failover policy
\* sort.Slice(sortedBackends, priority <): the orders it may leave the copy in
\* (ascending priority; the order of equal priorities is not specified)
SortOutcomes(bs) ==
    {p \in Permutations(1 .. Len(bs)) :
        \A i, j \in 1 .. Len(bs) : i < j => bs[p[i]].Priority <= bs[p[j]].Priority}

\* the scan of pickBackendWithFailover over the sorted copy, from position i on
RECURSIVE FailoverScan(_, _, _, _, _)
FailoverScan(sorted, recordType, i, minPriority, healthyIPs) ==
    IF i > Len(sorted) THEN healthyIPs
    ELSE IF IsHealthy(sorted[i]) /\ FamilyMatch(recordType, GetAddress(sorted[i]))
         THEN LET mp == IF minPriority = -1 THEN GetPriority(sorted[i]) ELSE minPriority
              IN  IF GetPriority(sorted[i]) = mp
                  THEN FailoverScan(sorted, recordType, i + 1, mp,
                                    Append(healthyIPs, GetAddress(sorted[i])))
                  ELSE healthyIPs      \* break: stop at first higher priority
         ELSE FailoverScan(sorted, recordType, i + 1, minPriority, healthyIPs)

pickBackendWithFailover(bs, recordType, perm) ==
    LET sortedBackends == [i \in 1 .. Len(bs) |-> bs[perm[i]]]
        healthyIPs == FailoverScan(sortedBackends, recordType, 1, -1, <<>>)
    IN  IF Len(healthyIPs) = 0 THEN Err ELSE Ok(healthyIPs)

\* ---------------------------------------------------- round-robin policy
\* the healthy, matching-family backends collected by the round-robin and
\* random policies, in list order
BadHealthyBackends(bs, recordType) ==
    SelectSeq(bs, LAMBDA b : IsHealthy(b))

HealthyBackends(bs, recordType) ==
    SelectSeq(bs, LAMBDA b : IsHealthy(b) /\ FamilyMatch(recordType, GetAddress(b)))

\* value, exists := g.RoundRobinIndex.Load(domain)
LoadIndex(domain) ==
    IF domain \in DOMAIN RoundRobinIndex THEN RoundRobinIndex[domain] ELSE 0

BadNextIndex(index, n) == index % n
NextIndex(index, n) == (index + 1) % n

\* result of pickBackendWithRoundRobin and the cursor it stores (-1: nothing stored)
pickBackendWithRoundRobin(bs, recordType, index) ==
    LET healthyBackends == HealthyBackends(bs, recordType)
        n == Len(healthyBackends)
    IN  IF n = 0 THEN [res |-> Err, store |-> -1]
        ELSE [res |-> Ok(<<GetAddress(healthyBackends[(index % n) + 1])>>),
              store |-> NextIndex(index, n)]

\* --------------------------------------------------------- random policy
Swap(s, i, j) == [s EXCEPT ![i] = s[j], ![j] = s[i]]

\* the draws of one rand.Shuffle(n, swap): j = Intn(i+1) for i = n-1 down to 1
ShuffleDraws(n) == {js \in [1 .. n - 1 -> 0 .. n - 1] : \A i \in 1 .. n - 1 : js[i] <= i}

\* rand.Shuffle: for i := n-1; i > 0; i-- { j := Intn(i+1); swap(i, j) }  (0-based i, j)
RECURSIVE BadShuffle(_, _, _)
BadShuffle(s, i, js) ==
    IF i <= 0 THEN s ELSE BadShuffle(Swap(s, i + 1, 1), i - 1, js)

RECURSIVE Shuffle(_, _, _)
Shuffle(s, i, js) ==
    IF i <= 0 THEN s ELSE Shuffle(Swap(s, i + 1, js[i] + 1), i - 1, js)

pickBackendWithRandom(bs, recordType, js) ==
    LET healthyBackends == HealthyBackends(bs, recordType)
        n == Len(healthyBackends)
        shuffled == Shuffle(healthyBackends, n - 1, js)
    IN  IF n = 0 THEN Err
        ELSE Ok([i \in 1 .. n |-> GetAddress(shuffled[i])])

\* ------------------------------------------------------- weighted policy
WeightedBackends(bs, recordType) ==
    SelectSeq(bs, LAMBDA b : IsHealthy(b) /\ IsEnabled(b)
                             /\ FamilyMatch(recordType, GetAddress(b))
                             /\ GetWeight(b) > 0)

RECURSIVE TotalWeight(_)
TotalWeight(ws) == IF ws = <<>> THEN 0 ELSE GetWeight(Head(ws)) + TotalWeight(Tail(ws))

\* the roulette-wheel walk from position i with the weight accumulated so far
RECURSIVE Roulette(_, _, _, _)
Roulette(ws, i, cumulative, randVal) ==
    IF i > Len(ws) THEN Err        \* "weighted selection failed"
    ELSE IF randVal < cumulative + GetWeight(ws[i])
         THEN Ok(<<GetAddress(ws[i])>>)
         ELSE Roulette(ws, i + 1, cumulative + GetWeight(ws[i]), randVal)

\* randVal is the value rand.Intn(totalWeight) returned
pickBackendWithWeighted(bs, recordType, randVal) ==
    LET weightedBackends == WeightedBackends(bs, recordType)
        totalWeight == TotalWeight(weightedBackends)
    IN  IF Len(weightedBackends) = 0 \/ totalWeight = 0 THEN Err
        ELSE Roulette(weightedBackends, 1, 0, randVal)

\* -------------------------------------------------------- nearest policy
\* haversineKm on the abstract coordinates: a total, symmetric distance
haversineKm(c1, c2) == IF c1 >= c2 THEN c1 - c2 ELSE c2 - c1

\* math.MaxFloat64 as the initial bestDistance: above every distance
InfDistance == MaxCoord + 1

\* the loop of pickBackendWithNearestCoordinates from position i on;
\* best is the position of the best backend so far, 0 for nil
RECURSIVE BadNearestScan(_, _, _, _, _, _)
BadNearestScan(bs, recordType, clientCoord, i, best, bestDistance) ==
    IF i > Len(bs) THEN best
    ELSE IF ~IsHealthy(bs[i]) \/ ~IsEnabled(bs[i]) \/ ~HasCoordinates(bs[i])
            \/ ~FamilyMatch(recordType, GetAddress(bs[i]))
         THEN BadNearestScan(bs, recordType, clientCoord, i + 1, best, bestDistance)
         ELSE IF haversineKm(clientCoord, bs[i].Coord) <= bestDistance
              THEN BadNearestScan(bs, recordType, clientCoord, i + 1, i,
                                  haversineKm(clientCoord, bs[i].Coord))
              ELSE BadNearestScan(bs, recordType, clientCoord, i + 1, best, bestDistance)

RECURSIVE NearestScan(_, _, _, _, _, _)
NearestScan(bs, recordType, clientCoord, i, best, bestDistance) ==
    IF i > Len(bs) THEN best
    ELSE IF ~IsHealthy(bs[i]) \/ ~IsEnabled(bs[i]) THEN
             NearestScan(bs, recordType, clientCoord, i + 1, best, bestDistance)
    ELSE IF ~HasCoordinates(bs[i]) THEN
             NearestScan(bs, recordType, clientCoord, i + 1, best, bestDistance)
    ELSE IF ~FamilyMatch(recordType, GetAddress(bs[i])) THEN
             NearestScan(bs, recordType, clientCoord, i + 1, best, bestDistance)
    ELSE LET distance == haversineKm(clientCoord, bs[i].Coord)
         IN  IF distance < bestDistance
             THEN NearestScan(bs, recordType, clientCoord, i + 1, i, distance)
             ELSE NearestScan(bs, recordType, clientCoord, i + 1, best, bestDistance)

pickBackendWithNearestCoordinates(bs, recordType, clientCoord) ==
    LET best == NearestScan(bs, recordType, clientCoord, 1, 0, InfDistance)
    IN  IF best = 0 THEN Err ELSE Ok(<<GetAddress(bs[best])>>)

pickBackendWithNearest(g, bs, recordType, clientIP, perm) ==
    IF ~g.CityDB THEN pickBackendWithFailover(bs, recordType, perm)
    ELSE IF CityLookup(clientIP).err THEN pickBackendWithFailover(bs, recordType, perm)
    ELSE LET r == pickBackendWithNearestCoordinates(bs, recordType, CityLookup(clientIP).Coord)
         IN  IF ~r.ok THEN pickBackendWithFailover(bs, recordType, perm) ELSE r

\* -------------------------------------------------------- fastest policy
\* time.Duration(math.MaxInt64) as the initial bestTime: above every recorded time
InfTime == MaxResponseTime + 1

\* the loop of pickBackendWithFastest from position i on: the best position
\* (0 for nil), its time and hasAnyMeasured
RECURSIVE BadFastestScan(_, _, _, _, _, _)
BadFastestScan(bs, recordType, i, best, bestTime, hasAnyMeasured) ==
    IF i > Len(bs) THEN [best |-> best, hasAnyMeasured |-> hasAnyMeasured]
    ELSE IF ~IsHealthy(bs[i]) \/ ~IsEnabled(bs[i])
            \/ ~FamilyMatch(recordType, GetAddress(bs[i]))
         THEN BadFastestScan(bs, recordType, i + 1, best, bestTime, hasAnyMeasured)
         ELSE IF GetResponseTime(bs[i]) < bestTime
              THEN BadFastestScan(bs, recordType, i + 1, i, GetResponseTime(bs[i]),
                                  hasAnyMeasured)
              ELSE BadFastestScan(bs, recordType, i + 1, best, bestTime, hasAnyMeasured)

RECURSIVE FastestScan(_, _, _, _, _, _)
FastestScan(bs, recordType, i, best, bestTime, hasAnyMeasured) ==
    IF i > Len(bs) THEN [best |-> best, hasAnyMeasured |-> hasAnyMeasured]
    ELSE IF ~IsHealthy(bs[i]) \/ ~IsEnabled(bs[i]) THEN
             FastestScan(bs, recordType, i + 1, best, bestTime, hasAnyMeasured)
    ELSE IF ~FamilyMatch(recordType, GetAddress(bs[i])) THEN
             FastestScan(bs, recordType, i + 1, best, bestTime, hasAnyMeasured)
    ELSE IF GetResponseTime(bs[i]) = 0 THEN
             \* not yet measured: a candidate only if nothing else was seen
             FastestScan(bs, recordType, i + 1, IF best = 0 THEN i ELSE best,
                         bestTime, hasAnyMeasured)
    ELSE IF GetResponseTime(bs[i]) < bestTime
         THEN FastestScan(bs, recordType, i + 1, i, GetResponseTime(bs[i]), TRUE)
         ELSE FastestScan(bs, recordType, i + 1, best, bestTime, TRUE)

pickBackendWithFastest(bs, recordType, perm) ==
    LET r == FastestScan(bs, recordType, 1, 0, InfTime, FALSE)
    IN  IF r.best = 0 THEN Err
        ELSE IF r.hasAnyMeasured /\ GetResponseTime(bs[r.best]) = 0
             THEN pickBackendWithFailover(bs, recordType, perm)
             ELSE Ok(<<GetAddress(bs[r.best])>>)

\* ---------------------------------------------------------- GeoIP policy
GetCountry(b) == b.Country
GetCity(b) == b.City
GetASN(b) == b.ASN
GetLocation(b) == b.Location

\* the attribute a database tier compares: GetCountry, GetCity or GetASN
TierAttribute(b, tier) ==
    CASE tier = "country" -> GetCountry(b)
      [] tier = "city"    -> GetCity(b)
      [] tier = "asn"     -> GetASN(b)

\* the loop of the country, city and ASN tiers from position i on: the
\* address of the first healthy and enabled backend whose attribute equals
\* value (then break), or nothing
RECURSIVE BadFirstMatch(_, _, _, _)
BadFirstMatch(bs, tier, value, i) ==
    IF i > Len(bs) THEN <<>>
    ELSE IF IsEnabled(bs[i]) /\ TierAttribute(bs[i], tier) = value
         THEN <<GetAddress(bs[i])>>
         ELSE BadFirstMatch(bs, tier, value, i + 1)

RECURSIVE FirstMatch(_, _, _, _)
FirstMatch(bs, tier, value, i) ==
    IF i > Len(bs) THEN <<>>
    ELSE IF IsHealthy(bs[i]) /\ IsEnabled(bs[i]) /\ TierAttribute(bs[i], tier) = value
         THEN <<GetAddress(bs[i])>>
         ELSE FirstMatch(bs, tier, value, i + 1)

\* the subnets of the location map that parse and contain the client
ContainingSubnets(locationMap, clientIP) ==
    {s \in DOMAIN locationMap : SubnetContains(s, clientIP)}

\* the orders in which one backend's range over the location map may meet the
\* client's subnets first: subs[i] is the first containing subnet met for
\* backend i ("" when no subnet contains the client)
SubnetChoices(locationMap, clientIP, n) ==
    IF ContainingSubnets(locationMap, clientIP) = {} THEN {[i \in 1 .. n |-> ""]}
    ELSE [1 .. n -> ContainingSubnets(locationMap, clientIP)]

\* the custom location tier's loop from position i on
RECURSIVE LocationMatches(_, _, _, _, _)
LocationMatches(bs, locationMap, subs, i, matchedIPs) ==
    IF i > Len(bs) THEN matchedIPs
    ELSE IF IsHealthy(bs[i]) /\ IsEnabled(bs[i])
            /\ subs[i] \in DOMAIN locationMap
            /\ GetLocation(bs[i]) = locationMap[subs[i]]
         THEN LocationMatches(bs, locationMap, subs, i + 1,
                              Append(matchedIPs, GetAddress(bs[i])))
         ELSE LocationMatches(bs, locationMap, subs, i + 1, matchedIPs)

CountryTier(g, bs, clientIP) ==
    IF g.CountryDB /\ ~CountryLookup(clientIP).err /\ CountryLookup(clientIP).IsoCode # ""
    THEN FirstMatch(bs, "country", CountryLookup(clientIP).IsoCode, 1)
    ELSE <<>>

CityTier(g, bs, clientIP) ==
    IF g.CityDB /\ ~CityLookup(clientIP).err /\ CityLookup(clientIP).Name # ""
    THEN FirstMatch(bs, "city", CityLookup(clientIP).Name, 1)
    ELSE <<>>

\* asn := fmt.Sprint(recordASN.AutonomousSystemNumber)
ASNTier(g, bs, clientIP) ==
    IF g.ASNDB /\ ~ASNLookup(clientIP).err /\ ASNLookup(clientIP).AutonomousSystemNumber # 0
    THEN FirstMatch(bs, "asn", ToString(ASNLookup(clientIP).AutonomousSystemNumber), 1)
    ELSE <<>>

LocationTier(g, bs, subs) ==
    IF Cardinality(DOMAIN g.LocationMap) > 0
    THEN LocationMatches(bs, g.LocationMap, subs, 1, <<>>)
    ELSE <<>>

BadpickBackendWithGeoIP(g, bs, recordType, clientIP, subs, perm) ==
    IF Len(CityTier(g, bs, clientIP)) > 0 THEN Ok(CityTier(g, bs, clientIP))
    ELSE IF Len(CountryTier(g, bs, clientIP)) > 0 THEN Ok(CountryTier(g, bs, clientIP))
    ELSE IF Len(ASNTier(g, bs, clientIP)) > 0 THEN Ok(ASNTier(g, bs, clientIP))
    ELSE IF Len(LocationTier(g, bs, subs)) > 0 THEN Ok(LocationTier(g, bs, subs))
    ELSE pickBackendWithFailover(bs, recordType, perm)

pickBackendWithGeoIP(g, bs, recordType, clientIP, subs, perm) ==
    IF Len(CountryTier(g, bs, clientIP)) > 0 THEN Ok(CountryTier(g, bs, clientIP))
    ELSE IF Len(CityTier(g, bs, clientIP)) > 0 THEN Ok(CityTier(g, bs, clientIP))
    ELSE IF Len(ASNTier(g, bs, clientIP)) > 0 THEN Ok(ASNTier(g, bs, clientIP))
    ELSE IF Len(LocationTier(g, bs, subs)) > 0 THEN Ok(LocationTier(g, bs, subs))
    ELSE pickBackendWithFailover(bs, recordType, perm)

\* ------------------------------------------------------------ pickResponse
Modes == {"failover", "roundrobin", "random", "geoip", "weighted", "nearest", "fastest",
          "leastconn"}

\* nd: what the call draws from its environment: perm (the order sort.Slice
\* leaves), js (the shuffle's draws), randVal (rand.Intn), subs (the map range
\* orders); index is the cursor loaded for the domain.
\* The result carries the cursor round-robin stores (-1: nothing is stored).
pickResponse(md, g, bs, recordType, clientIP, index, nd) ==
    LET plain(r) == [ok |-> r.ok, ips |-> r.ips, store |-> -1]
    IN  CASE md = "failover"   -> plain(pickBackendWithFailover(bs, recordType, nd.perm))
          [] md = "roundrobin" ->
                LET r == pickBackendWithRoundRobin(bs, recordType, index)
                IN  [ok |-> r.res.ok, ips |-> r.res.ips, store |-> r.store]
          [] md = "random"     -> plain(pickBackendWithRandom(bs, recordType, nd.js))
          [] md = "geoip"      ->
                plain(pickBackendWithGeoIP(g, bs, recordType, clientIP, nd.subs, nd.perm))
          [] md = "weighted"   -> plain(pickBackendWithWeighted(bs, recordType, nd.randVal))
          [] md \in {"nearest", "closest"} ->
                plain(pickBackendWithNearest(g, bs, recordType, clientIP, nd.perm))
          [] md = "fastest"    -> plain(pickBackendWithFastest(bs, recordType, nd.perm))
          [] OTHER             -> plain(Err)       \* unsupported mode

\* ------------------------------------------------------------------- Init
\* the health states of a backend: healthy, disabled but alive, enabled but
\* not alive (a backend both disabled and not alive adds no case)
HealthStates ==
    {[Enable |-> TRUE, Alive |-> TRUE], [Enable |-> FALSE, Alive |-> TRUE],
     [Enable |-> TRUE, Alive |-> FALSE]}

BaseBackends(i) ==
    {NewBackend(i, f, h.Enable, h.Alive) : f \in Families, h \in HealthStates}

\* the backends of the modes that fall back to failover: priorities descend
\* along the list, so the failover order is the reverse of the list order
FallbackBackends(i) ==
    {[b EXCEPT !.Priority = MaxBackends - i] : b \in BaseBackends(i)}

\* the geo attributes a backend of a geoip record is configured with
GeoProfiles ==
    { [Country |-> "",   City |-> "",       ASN |-> "",      Location |-> ""],
      [Country |-> "GB", City |-> "",       ASN |-> "",      Location |-> ""],
      [Country |-> "",   City |-> "London", ASN |-> "",      Location |-> ""],
      [Country |-> "",   City |-> "",       ASN |-> "64500", Location |-> ""],
      [Country |-> "",   City |-> "",       ASN |-> "",      Location |-> "eu-west"],
      [Country |-> "GB", City |-> "London", ASN |-> "64500", Location |-> "eu-west"] }

\* the backends a record of mode md is configured with at position i: each
\* mode varies the fields its policy reads
BackendChoices(md, i) ==
    CASE md = "failover" ->
            {[b EXCEPT !.Priority = p] : b \in BaseBackends(i), p \in Priorities}
      [] md = "weighted" ->
            {[b EXCEPT !.Weight = w] : b \in BaseBackends(i), w \in Weights}
      [] md = "fastest" ->
            {[b EXCEPT !.ResponseTime = t] : b \in FallbackBackends(i), t \in ResponseTimes}
      [] md = "nearest" ->
            FallbackBackends(i) \cup
            {[b EXCEPT !.CoordinatesSet = TRUE, !.Coord = c] :
                b \in FallbackBackends(i), c \in Coords}
      [] md = "geoip" ->
            {[b EXCEPT !.Country = gp.Country, !.City = gp.City, !.ASN = gp.ASN,
                       !.Location = gp.Location] :
                b \in FallbackBackends(i), gp \in GeoProfiles}
      [] md = "unlocated" -> FallbackBackends(i)
      [] OTHER -> BaseBackends(i)

\* the backend lists of length n a record of mode md is configured with
RECURSIVE BackendLists(_, _)
BackendLists(md, n) ==
    IF n = 0 THEN {<<>>}
    ELSE {Append(bs, b) : bs \in BackendLists(md, n - 1), b \in BackendChoices(md, n)}

\* last: fn is the function called, domain / recordType / clientIP / clientCoord its
\* arguments, ok and ips its result; index is the round-robin cursor it loaded,
\* randVal the value rand.Intn gave it, call the number of round-robin queries
\* answered before it
NoCall ==
    [called |-> FALSE, fn |-> "", domain |-> "", recordType |-> "A", clientIP |-> NoClient,
     clientCoord |-> 0, ok |-> FALSE, ips |-> <<>>, index |-> 0, randVal |-> 0,
     call |-> 0]

\* the record's health checking has not been started
DefaultConf ==
    [ScrapeInterval |-> 1, ResolutionIdleTimeout |-> 1, HealthcheckIdleMultiplier |-> 1]
NoCycle == [completed |-> FALSE, allTrue |-> FALSE, timedOut |-> FALSE, afterCancel |-> FALSE]
NotProbing ==
    /\ conf = DefaultConf
    /\ ctxDone = [ctx |-> FALSE, recordCtx |-> FALSE]
    /\ sched = [ctx |-> "none", start |-> 0, wake |-> 0, interval |-> 0, tickAt |-> 0,
                ticks |-> 0]
    /\ cycles = [b \in Idx |-> <<>>]
    /\ done = [b \in Idx |-> NoCycle]

\* no query was received yet
NeverResolved == [d \in {} |-> 0]
NoReply ==
    [served |-> FALSE, qname |-> "", domain |-> "", qtype |-> "", clientIP |-> NoClient,
     stage |-> "", rcode |-> "", answer |-> <<>>, writeOk |-> TRUE, at |-> 0]

\* nothing is registered, nothing was loaded
NoRecords == [z \in {} |-> [n \in {} |-> [name |-> "", born |-> 0]]]
\* names: the names the file loaded holds; changed: the registered names whose
\* entry the reload changed; rec: the record started or probed
NoEvent == [kind |-> "none", names |-> {}, changed |-> {}, err |-> FALSE,
            rec |-> [name |-> "", born |-> 0]]

\* the goroutines of the lock model: two queries, a reload, a health check cycle
Queries == {"q1", "q2"}
Procs == Queries \cup {"reload", "probe"}
Idle == [prog |-> "idle", at |-> 0]
\* a sync.RWMutex nobody holds
Unlocked == [writer |-> "", readers |-> {}]

NotReloading ==
    /\ Records = NoRecords
    /\ heap = [id \in {} |-> <<>>]
    /\ tasks = {}
    /\ canceled = {}
    /\ waiting = {}
    /\ event = NoEvent
    /\ pc = [p \in Procs |-> Idle]
    /\ Mutex = Unlocked
    /\ mutex = Unlocked

\* no selection call and no query is modelled
NotSelecting ==
    /\ mode = "failover"
    /\ geo = GeoAbsent
    /\ backends = <<>>
    /\ RoundRobinIndex = [d \in {} |-> 0]
    /\ rrCalls = [n |-> 0, recordType |-> "none"]
    /\ last = NoCall
    /\ LastResolution = NeverResolved
    /\ reply = NoReply

\* no health check call, no start-up, no location map and no step-by-step
\* goroutine is modelled
NoCheck ==
    [h |-> [ExpectedBody |-> "", Timeout |-> "5s", Method |-> "GET"], maxRetries |-> 0,
     at |-> "none", retry |-> 0, attempts |-> <<>>, result |-> FALSE]
NoStagger ==
    [batchSize |-> 1, maxStagger |-> 0, order |-> <<>>, at |-> "none", groups |-> <<>>,
     delays |-> <<>>, clock |-> 0, started |-> <<>>]
\* var m map[string]string
NilMap == [nil |-> TRUE, m |-> [s \in {} |-> ""]]
NoMapLoad == [path |-> "", file |-> [kind |-> "none", subnets |-> <<>>], err |-> FALSE,
              before |-> NilMap, calls |-> 0]
NoShared == <<>>
\* the locals of pickBackendWithWeighted: i is the position its loop is at
NoWeighted ==
    [at |-> "none", i |-> 0, weightedBackends |-> <<>>, totalWeight |-> 0, randVal |-> 0,
     cumulative |-> 0, err |-> "", ips |-> <<>>]
\* the locals of runHealthChecks: results is len(results), probes the list its
\* second loop ranges over, written the positions of results assigned so far
NoRun ==
    [at |-> "none", results |-> 0, healthChecksList |-> <<>>, probes |-> <<>>,
     written |-> {}, panic |-> FALSE]
NoFrames == [weighted |-> NoWeighted, runHealthChecks |-> NoRun, reloads |-> 0]
NotChecking ==
    /\ check = NoCheck
    /\ stagger = NoStagger
    /\ LocationMap = NilMap
    /\ mapLoad = NoMapLoad
    /\ answers = <<>>
    /\ shared = NoShared
    /\ frames = NoFrames

\* A deployment of a geoip or nearest record either has the GeoIP databases and
\* the location map loaded, or has none of them and backends that carry no geo
\* attributes ("unlocated"); the other modes never read the GeoIP state.
Init ==
    /\ mode \in Modes
    /\ geo \in IF mode \in {"geoip", "nearest"} THEN {GeoLoaded, GeoAbsent} ELSE {GeoAbsent}
    /\ backends \in BackendLists(IF mode \in {"geoip", "nearest"} /\ geo = GeoAbsent
                                  THEN "unlocated" ELSE mode, MaxBackends)
    /\ RoundRobinIndex = [d \in {} |-> 0]
    /\ rrCalls = [n |-> 0, recordType |-> "none"]
    /\ last = NoCall
    /\ now = 0
    /\ LastResolution = NeverResolved
    /\ reply = NoReply
    /\ NotProbing
    /\ NotReloading
    /\ NotChecking

\* ---------------------------------------------------------------- actions
NoDraw == [perm |-> <<>>, js |-> <<>>, randVal |-> 0, subs |-> <<>>]

\* one query answered by pickResponse(domain, recordType, clientIP)
Respond(recordType, clientIP, nd) ==
    LET index == LoadIndex(Fqdn)
        r == pickResponse(mode, geo, backends, recordType, clientIP, index, nd)
    IN  /\ last' = [called |-> TRUE, fn |-> "pickResponse", domain |-> Fqdn,
                    recordType |-> recordType,
                    clientIP |-> clientIP, clientCoord |-> 0, ok |-> r.ok, ips |-> r.ips,
                    index |-> index, randVal |-> nd.randVal, call |-> rrCalls.n]
        /\ RoundRobinIndex' =
              IF r.store >= 0 THEN [d \in {Fqdn} |-> r.store] ELSE RoundRobinIndex
        /\ UNCHANGED <<mode, backends, geo>>

QueryFailover ==
    /\ mode = "failover"
    /\ ~last.called
    /\ \E recordType \in RecordTypes, perm \in SortOutcomes(backends) :
          Respond(recordType, NoClient, [NoDraw EXCEPT !.perm = perm])
    /\ UNCHANGED <<rrCalls, serveVars, probeVars, reloadVars, lockVars, unitVars, raceVars>>

QueryRoundRobin ==
    /\ mode = "roundrobin"
    /\ rrCalls.n < MaxCalls
    /\ \E recordType \in RecordTypes :
          /\ Respond(recordType, NoClient, NoDraw)
          /\ rrCalls' = [n |-> rrCalls.n + 1,
                         recordType |-> IF rrCalls.recordType \in {"none", recordType}
                                        THEN recordType ELSE "mixed"]
    /\ UNCHANGED <<serveVars, probeVars, reloadVars, lockVars, unitVars, raceVars>>

QueryRandom ==
    /\ mode = "random"
    /\ ~last.called
    /\ \E recordType \in RecordTypes :
          \E js \in ShuffleDraws(Len(HealthyBackends(backends, recordType))) :
              Respond(recordType, NoClient, [NoDraw EXCEPT !.js = js])
    /\ UNCHANGED <<rrCalls, serveVars, probeVars, reloadVars, lockVars, unitVars, raceVars>>

QueryWeighted ==
    /\ mode = "weighted"
    /\ ~last.called
    /\ \E recordType \in RecordTypes :
          LET totalWeight == TotalWeight(WeightedBackends(backends, recordType))
          IN  \E randVal \in 0 .. (IF totalWeight > 0 THEN totalWeight - 1 ELSE 0) :
                  Respond(recordType, NoClient, [NoDraw EXCEPT !.randVal = randVal])
    /\ UNCHANGED <<rrCalls, serveVars, probeVars, reloadVars, lockVars, unitVars, raceVars>>

QueryGeoIP ==
    /\ mode = "geoip"
    /\ ~last.called
    /\ \E recordType \in RecordTypes, clientIP \in ClientIPs,
          perm \in SortOutcomes(backends) :
          \E subs \in SubnetChoices(geo.LocationMap, clientIP, Len(backends)) :
              Respond(recordType, clientIP, [NoDraw EXCEPT !.perm = perm, !.subs = subs])
    /\ UNCHANGED <<rrCalls, serveVars, probeVars, reloadVars, lockVars, unitVars, raceVars>>

QueryNearest ==
    /\ mode \in {"nearest", "closest"}
    /\ ~last.called
    /\ \E recordType \in RecordTypes, clientIP \in ClientIPs,
          perm \in SortOutcomes(backends) :
          Respond(recordType, clientIP, [NoDraw EXCEPT !.perm = perm])
    /\ UNCHANGED <<rrCalls, serveVars, probeVars, reloadVars, lockVars, unitVars, raceVars>>

\* pickBackendWithNearestCoordinates called with the client's coordinates, as
\* pickBackendWithNearest calls it after a successful city lookup
CallNearestCoordinates ==
    /\ mode \in {"nearest", "closest"}
    /\ ~last.called
    /\ \E recordType \in RecordTypes, clientCoord \in Coords :
          LET r == pickBackendWithNearestCoordinates(backends, recordType, clientCoord)
          IN  last' = [NoCall EXCEPT !.called = TRUE,
                                     !.fn = "pickBackendWithNearestCoordinates",
                                     !.recordType = recordType,
                                     !.clientCoord = clientCoord,
                                     !.ok = r.ok, !.ips = r.ips]
    /\ UNCHANGED <<mode, backends, geo, RoundRobinIndex, rrCalls, serveVars, probeVars,
                   reloadVars, lockVars, unitVars, raceVars>>

QueryFastest ==
    /\ mode = "fastest"
    /\ ~last.called
    /\ \E recordType \in RecordTypes, perm \in SortOutcomes(backends) :
          Respond(recordType, NoClient, [NoDraw EXCEPT !.perm = perm])
    /\ UNCHANGED <<rrCalls, serveVars, probeVars, reloadVars, lockVars, unitVars, raceVars>>

QueryUnsupported ==
    /\ mode \notin {"failover", "roundrobin", "random", "geoip", "weighted",
                    "nearest", "closest", "fastest"}
    /\ ~last.called
    /\ \E recordType \in RecordTypes : Respond(recordType, NoClient, NoDraw)
    /\ UNCHANGED <<rrCalls, serveVars, probeVars, reloadVars, lockVars, unitVars, raceVars>>

Next ==
    \/ QueryFailover
    \/ QueryRoundRobin
    \/ QueryRandom
    \/ QueryWeighted
    \/ QueryGeoIP
    \/ QueryNearest
    \/ CallNearestCoordinates
    \/ QueryFastest
    \/ QueryUnsupported

Spec == Init /\ [][Next]_vars

\* ============================================================ DNS responder
\* the names questions are asked for, and strings.ToLower(dns.Fqdn(
\* strings.TrimSuffix(q.Name, "."))) of each
QueryNames == {"app.example.com.", "APP.Example.com", "other.example.com.", "app.example.org."}
NormalizeDomain(qname) ==
    CASE qname = "APP.Example.com" -> "app.example.com."
      [] OTHER                     -> qname

\* g.Zones holds the zone "example.com."; strings.HasSuffix(domainNorm, authZone)
isAuthoritative(domain) == domain \in {"app.example.com.", "other.example.com."}

\* g.Records holds one record, under Fqdn: findRecord(domain) != nil
findRecord(domain) == domain = Fqdn

\* question types: A and AAAA are answered here, MX stands for every other type
QueryTypes == {"A", "AAAA", "MX"}

\* the address-family test of pickAllAddresses with the enabled test dropped
BadpickAllAddresses(domain, bs, recordType) ==
    LET listed == SelectSeq(bs, LAMBDA b : IsHealthy(b)
                                           /\ FamilyMatch(recordType, GetAddress(b)))
    IN  IF ~findRecord(domain) THEN Err
        ELSE IF Len(listed) = 0 THEN Err
        ELSE Ok([i \in 1 .. Len(listed) |-> GetAddress(listed[i])])

pickAllAddresses(domain, bs, recordType) ==
    LET listed == SelectSeq(bs, LAMBDA b : IsEnabled(b)
                                           /\ FamilyMatch(recordType, GetAddress(b)))
    IN  IF ~findRecord(domain) THEN Err       \* "domain not found"
        ELSE IF Len(listed) = 0 THEN Err      \* "no backends exist for domain"
        ELSE Ok([i \in 1 .. Len(listed) |-> GetAddress(listed[i])])

\* sendAddressRecordResponse: one resource record per address, handed to
\* w.WriteMsg, which may fail
sendAddressRecordResponse(ipAddresses, writeOk) ==
    [rcode |-> IF writeOk THEN "NOERROR" ELSE "SERVFAIL", answer |-> ipAddresses]

\* what one pickResponse call may draw from its environment
DrawsOf(recordType, clientIP) ==
    {[perm |-> perm, js |-> js, randVal |-> randVal, subs |-> subs] :
        perm \in SortOutcomes(backends),
        js \in IF mode = "random"
               THEN ShuffleDraws(Len(HealthyBackends(backends, recordType)))
               ELSE {<<>>},
        randVal \in IF mode = "weighted"
                       /\ TotalWeight(WeightedBackends(backends, recordType)) > 0
                    THEN 0 .. TotalWeight(WeightedBackends(backends, recordType)) - 1
                    ELSE {0},
        subs \in IF mode = "geoip"
                 THEN SubnetChoices(geo.LocationMap, clientIP, Len(backends))
                 ELSE {<<>>}}

Question(qname, qtype, clientIP) ==
    [NoReply EXCEPT !.served = TRUE, !.qname = qname,
                    !.domain = NormalizeDomain(qname), !.qtype = qtype,
                    !.clientIP = clientIP, !.at = now]

\* the outcome of w.WriteMsg is recorded only where a message is written
Written(q, writeOk) == [q EXCEPT !.writeOk = writeOk]

\* plugin.NextOrFailure: the question is left to the next plugin
NextOrFailure(q) ==
    /\ reply' = [q EXCEPT !.stage = "next", !.rcode = "NEXT"]
    /\ UNCHANGED <<mode, backends, geo, RoundRobinIndex, rrCalls, last>>

\* handleIPRecord without the fallback to pickAllAddresses
BadhandleIPRecord(q, nd, writeOk) ==
    IF ~findRecord(q.domain) THEN NextOrFailure(q)
    ELSE /\ Respond(q.qtype, q.clientIP, nd)
         /\ rrCalls' = IF mode = "roundrobin"
                       THEN [n |-> rrCalls.n + 1,
                             recordType |-> IF rrCalls.recordType \in {"none", q.qtype}
                                            THEN q.qtype ELSE "mixed"]
                       ELSE rrCalls
         /\ LET sent == IF last'.ok THEN sendAddressRecordResponse(last'.ips, writeOk)
                        ELSE [rcode |-> "SERVFAIL", answer |-> <<>>]
            IN  reply' = [(IF last'.ok THEN Written(q, writeOk) ELSE q)
                             EXCEPT !.stage = IF last'.ok THEN "picked" ELSE "fallback",
                                    !.rcode = sent.rcode, !.answer = sent.answer]

\* handleIPRecord(ctx, w, r, domain, recordType)
handleIPRecord(q, nd, writeOk) ==
    IF ~findRecord(q.domain) THEN NextOrFailure(q)
    ELSE /\ Respond(q.qtype, q.clientIP, nd)
         /\ rrCalls' = IF mode = "roundrobin"
                       THEN [n |-> rrCalls.n + 1,
                             recordType |-> IF rrCalls.recordType \in {"none", q.qtype}
                                            THEN q.qtype ELSE "mixed"]
                       ELSE rrCalls
         /\ LET ipAddresses == pickAllAddresses(q.domain, backends, q.qtype)
                sent == IF last'.ok THEN sendAddressRecordResponse(last'.ips, writeOk)
                        ELSE IF ~ipAddresses.ok
                             THEN [rcode |-> "SERVFAIL", answer |-> <<>>]
                             ELSE sendAddressRecordResponse(ipAddresses.ips, writeOk)
            IN  reply' = [(IF last'.ok \/ ipAddresses.ok THEN Written(q, writeOk) ELSE q)
                             EXCEPT !.stage = IF last'.ok THEN "picked" ELSE "fallback",
                                    !.rcode = sent.rcode, !.answer = sent.answer]

\* ServeDNS without the call of updateLastResolutionTime
BadServeDNS(qname, qtype, clientIP, nd, writeOk) ==
    LET q == Question(qname, qtype, clientIP)
    IN  IF ~isAuthoritative(q.domain)
        THEN NextOrFailure(q) /\ UNCHANGED LastResolution
        ELSE IF clientIP = NoClient
        THEN /\ reply' = [q EXCEPT !.stage = "noclient", !.rcode = "SERVFAIL"]
             /\ UNCHANGED <<mode, backends, geo, RoundRobinIndex, rrCalls, last,
                            LastResolution>>
        ELSE /\ UNCHANGED LastResolution
             /\ IF qtype \in RecordTypes THEN handleIPRecord(q, nd, writeOk)
                ELSE NextOrFailure(q)

\* ServeDNS(ctx, w, r): clientIP is what extractClientIP finds (NoClient: nil)
ServeDNS(qname, qtype, clientIP, nd, writeOk) ==
    LET q == Question(qname, qtype, clientIP)
    IN  IF ~isAuthoritative(q.domain)
        THEN NextOrFailure(q) /\ UNCHANGED LastResolution
        ELSE IF clientIP = NoClient
        THEN /\ reply' = [q EXCEPT !.stage = "noclient", !.rcode = "SERVFAIL"]
             /\ UNCHANGED <<mode, backends, geo, RoundRobinIndex, rrCalls, last,
                            LastResolution>>
        ELSE /\ LastResolution' =        \* g.updateLastResolutionTime(domain)
                    [d \in DOMAIN LastResolution \cup {q.domain} |->
                        IF d = q.domain THEN now ELSE LastResolution[d]]
             /\ IF qtype \in RecordTypes THEN handleIPRecord(q, nd, writeOk)
                ELSE NextOrFailure(q)

\* one question asked of the server
Query ==
    /\ ~reply.served /\ ~last.called
    /\ \E qname \in QueryNames, qtype \in QueryTypes, clientIP \in ClientIPs \cup {NoClient},
          writeOk \in BOOLEAN :
          \E nd \in DrawsOf(qtype, clientIP) :
              ServeDNS(qname, qtype, clientIP, nd, writeOk)
    /\ UNCHANGED <<now, probeVars, reloadVars, lockVars, unitVars, raceVars>>

\* pickAllAddresses called on its own
CallPickAllAddresses ==
    /\ ~last.called /\ ~reply.served
    /\ \E domain \in {NormalizeDomain(n) : n \in QueryNames}, recordType \in RecordTypes :
          LET r == pickAllAddresses(domain, backends, recordType)
          IN  last' = [NoCall EXCEPT !.called = TRUE, !.fn = "pickAllAddresses",
                                     !.recordType = recordType, !.domain = domain,
                                     !.ok = r.ok, !.ips = r.ips]
    /\ UNCHANGED <<mode, backends, geo, RoundRobinIndex, rrCalls, serveVars, probeVars,
                   reloadVars, lockVars, unitVars, raceVars>>

\* the records served: every mode, backends that differ in family, health and
\* priority; the GeoIP state as a deployment without databases has it
InitServe ==
    /\ mode \in Modes
    /\ geo = GeoAbsent
    /\ backends \in BackendLists("unlocated", MaxBackends)
    /\ RoundRobinIndex = [d \in {} |-> 0]
    /\ rrCalls = [n |-> 0, recordType |-> "none"]
    /\ last = NoCall
    /\ now = 0
    /\ LastResolution = NeverResolved
    /\ reply = NoReply
    /\ NotProbing
    /\ NotReloading
    /\ NotChecking

NextServe ==
    \/ Query
    \/ CallPickAllAddresses

SpecServe == InitServe /\ [][NextServe]_vars

\* ===================================================== health check cycles
\* The record probed: a failover record whose backends are enabled and not
\* yet probed, each with hcs[i] health checks configured.
ProbedBackends(hcs) ==
    [i \in 1 .. Len(hcs) |->
        [NewBackend(i, "v4", TRUE, FALSE) EXCEPT
            !.Priority = i, !.HealthChecks = [k \in 1 .. hcs[i] |-> "http"]]]

\* the context initializeRecordsFromFiles hands to scrapeBackends
BadStartContext == "ctx"
StartContext == "recordCtx"

\* ctx.Done() of the context c is closed
Done(c) == c # "none" /\ ctxDone[c]

\* The interval the scheduler chooses at time t: slowed when the record has
\* been idle for longer than the idle timeout. A record never queried counts
\* its idleness from the scheduler's start.
EffectiveInterval(t) ==
    LET lastQuery == IF Fqdn \in DOMAIN LastResolution THEN LastResolution[Fqdn]
                     ELSE sched.start
    IN  IF t - lastQuery > conf.ResolutionIdleTimeout
        THEN conf.ScrapeInterval * conf.HealthcheckIdleMultiplier
        ELSE conf.ScrapeInterval

\* runHealthChecks up to the launch of its probes: results is the slice the
\* probes write, wg the WaitGroup counter; outcome tells what each probe did
NewCycle(b, id) ==
    [id |-> id, start |-> now,
     results |-> [i \in 1 .. Len(b.HealthChecks) |-> FALSE],
     wg |-> Len(b.HealthChecks),
     outcome |-> [i \in 1 .. Len(b.HealthChecks) |-> "pending"]]

\* alive := true; for _, result := range results { if !result { alive = false } }
BadAllSucceeded(results) == \E i \in 1 .. Len(results) : results[i]
AllSucceeded(results) == \A i \in 1 .. Len(results) : results[i]

RemoveAt(seq, k) == [j \in 1 .. Len(seq) - 1 |-> IF j < k THEN seq[j] ELSE seq[j + 1]]

\* the configurations and health check counts the specifications start from
Confs ==
    [ScrapeInterval : 1 .. MaxInterval, ResolutionIdleTimeout : 0 .. MaxIdleTimeout,
     HealthcheckIdleMultiplier : 1 .. MaxMultiplier]

\* the state once initializeRecordsFromFiles has started scrapeBackends for
\* the record, with the first interval chosen at the start
InitProbing(confs, hcLists) ==
    /\ mode = "failover"
    /\ geo = GeoAbsent
    /\ \E hcs \in hcLists : backends = ProbedBackends(hcs)
    /\ RoundRobinIndex = [d \in {} |-> 0]
    /\ rrCalls = [n |-> 0, recordType |-> "none"]
    /\ last = NoCall
    /\ now = 0
    /\ LastResolution = NeverResolved
    /\ reply = NoReply
    /\ conf \in confs
    /\ ctxDone = [ctx |-> FALSE, recordCtx |-> FALSE]
    /\ sched = [ctx |-> StartContext, start |-> 0, wake |-> conf.ScrapeInterval,
                interval |-> conf.ScrapeInterval, tickAt |-> 0, ticks |-> 0]
    /\ cycles = [b \in Idx |-> <<>>]
    /\ done = [b \in Idx |-> NoCycle]
    /\ NotReloading
    /\ NotChecking

\* the timer of scrapeBackends is due
TickDue == ~Done(sched.ctx) /\ sched.ctx # "none" /\ sched.wake = now

\* time passes; a due timer fires before it does
Advance ==
    /\ now < MaxTime
    /\ ~TickDue
    /\ now' = now + 1
    /\ UNCHANGED <<mode, backends, geo, RoundRobinIndex, rrCalls, last, LastResolution,
                   reply, probeVars, reloadVars, lockVars, unitVars, raceVars>>

\* scrapeBackends, one turn of its loop: the context is not canceled and the
\* timer fires: a runHealthChecks call is started for every backend and the
\* interval to the next turn is chosen
Tick ==
    /\ TickDue
    /\ \A b \in 1 .. Len(backends) : Len(cycles[b]) < MaxInFlight
    /\ sched' = [sched EXCEPT !.interval = EffectiveInterval(now),
                              !.wake = now + EffectiveInterval(now),
                              !.tickAt = now, !.ticks = sched.ticks + 1]
    /\ cycles' = [b \in Idx |->
                    IF b <= Len(backends)
                    THEN Append(cycles[b], NewCycle(backends[b], sched.ticks + 1))
                    ELSE cycles[b]]
    /\ backends' = [b \in 1 .. Len(backends) |->
                       [backends[b] EXCEPT !.LastHealthcheck = now]]
    /\ UNCHANGED <<mode, geo, RoundRobinIndex, rrCalls, last, serveVars, conf, ctxDone,
                   done, reloadVars, lockVars, unitVars, raceVars>>

\* a probe's PerformCheck returns v before the scrape timeout expires: the
\* select takes it from resultChan
ProbeReturns(b, k, i, v) ==
    /\ k \in 1 .. Len(cycles[b])
    /\ i \in 1 .. Len(cycles[b][k].outcome)
    /\ cycles[b][k].outcome[i] = "pending"
    /\ cycles' = [cycles EXCEPT ![b][k].results[i] = v,
                                ![b][k].wg = @ - 1,
                                ![b][k].outcome[i] = IF v THEN "true" ELSE "false"]
    /\ UNCHANGED <<mode, backends, geo, RoundRobinIndex, rrCalls, last, serveVars, conf,
                   ctxDone, sched, done, reloadVars, lockVars, unitVars, raceVars>>

\* the select that never takes the timeout
BadProbeTimeout(b, k, i) ==
    /\ FALSE
    /\ UNCHANGED vars

\* the scrape timeout expires before the probe has returned: ctx.Done()
ProbeTimeout(b, k, i) ==
    /\ k \in 1 .. Len(cycles[b])
    /\ i \in 1 .. Len(cycles[b][k].outcome)
    /\ cycles[b][k].outcome[i] = "pending"
    /\ cycles' = [cycles EXCEPT ![b][k].results[i] = FALSE,
                                ![b][k].wg = @ - 1,
                                ![b][k].outcome[i] = "timeout"]
    /\ UNCHANGED <<mode, backends, geo, RoundRobinIndex, rrCalls, last, serveVars, conf,
                   ctxDone, sched, done, reloadVars, lockVars, unitVars, raceVars>>

\* runHealthChecks after wg.Wait(): the results are aggregated and written
FinishCycle(b, k) ==
    /\ k \in 1 .. Len(cycles[b])
    /\ cycles[b][k].wg = 0
    /\ backends' = [backends EXCEPT ![b].Alive = AllSucceeded(cycles[b][k].results),
                                    ![b].ResponseTime = now - cycles[b][k].start]
    /\ done' = [done EXCEPT ![b] =
                    [completed |-> TRUE,
                     allTrue |-> \A i \in 1 .. Len(cycles[b][k].outcome) :
                                    cycles[b][k].outcome[i] = "true",
                     timedOut |-> \E i \in 1 .. Len(cycles[b][k].outcome) :
                                     cycles[b][k].outcome[i] = "timeout",
                     afterCancel |-> ctxDone["recordCtx"]]]
    /\ cycles' = [cycles EXCEPT ![b] = RemoveAt(cycles[b], k)]
    /\ UNCHANGED <<mode, geo, RoundRobinIndex, rrCalls, last, serveVars, conf, ctxDone,
                   sched, reloadVars, lockVars, unitVars, raceVars>>

\* record.cancelFunc(): the record's context is canceled
Cancel ==
    /\ sched.ctx # "none"
    /\ ~ctxDone["recordCtx"]
    /\ ctxDone' = [ctxDone EXCEPT !["recordCtx"] = TRUE]
    /\ UNCHANGED <<mode, backends, geo, RoundRobinIndex, rrCalls, last, serveVars, conf,
                   sched, cycles, done, reloadVars, lockVars, unitVars, raceVars>>

\* an A question for the record arrives while it is probed
Resolve ==
    /\ \E clientIP \in {"81.2.69.142"} :
          \E nd \in DrawsOf("A", clientIP) : ServeDNS(Fqdn, "A", clientIP, nd, TRUE)
    /\ UNCHANGED <<now, probeVars, reloadVars, lockVars, unitVars, raceVars>>

NextProbing ==
    \/ Advance
    \/ Tick
    \/ \E b \in Idx, k \in 1 .. MaxInFlight, i \in 1 .. MaxProbes, v \in BOOLEAN :
          ProbeReturns(b, k, i, v)
    \/ \E b \in Idx, k \in 1 .. MaxInFlight, i \in 1 .. MaxProbes : ProbeTimeout(b, k, i)
    \/ \E b \in Idx, k \in 1 .. MaxInFlight : FinishCycle(b, k)
    \/ Cancel
    \/ Resolve

\* a record of one backend with 0 .. MaxProbes health checks, probed at one
\* interval
HealthConf == [DefaultConf EXCEPT !.ScrapeInterval = MaxInFlight]
InitHealth == InitProbing({HealthConf}, {<<n>> : n \in 0 .. MaxProbes})
\* the probe cycles alone: the scheduler's turns and the probes they start
NextHealth ==
    \/ Advance
    \/ Tick
    \/ \E b \in Idx, k \in 1 .. MaxInFlight, i \in 1 .. MaxProbes, v \in BOOLEAN :
          ProbeReturns(b, k, i, v)
    \/ \E b \in Idx, k \in 1 .. MaxInFlight, i \in 1 .. MaxProbes : ProbeTimeout(b, k, i)
    \/ \E b \in Idx, k \in 1 .. MaxInFlight : FinishCycle(b, k)

SpecHealth == InitHealth /\ [][NextHealth]_vars

\* a timer that is running fires, and a runHealthChecks call whose probes are
\* done goes on; nothing is assumed of the probes themselves
FairProbing ==
    /\ WF_vars(\E b \in Idx, k \in 1 .. MaxInFlight, i \in 1 .. MaxProbes :
                  ProbeTimeout(b, k, i))
    /\ WF_vars(\E b \in Idx, k \in 1 .. MaxInFlight : FinishCycle(b, k))
SpecHealthFair == SpecHealth /\ FairProbing

\* every configuration, a record of one backend with one health check
InitSched == InitProbing(Confs, {<<Len(<<"http">>)>>})
SpecSched == InitSched /\ [][NextProbing]_vars

\* ===================================================== registry and reload
\* One configured zone (g.Zones), the names its file may hold, and a name
\* that is not under the zone.
Zone == "example.com."
Names == {"a.example.com.", "b.example.com."}
Stranger == "www.example.org."
\* strings.HasSuffix(fqdn, zone)
HasSuffix(fqdn, zone) == zone = Zone /\ fqdn \in Names

\* healthcheck_profiles of the file
HealthcheckProfiles == {"https_default"}

\* A backend entry of the YAML file. latitude and longitude are *float64:
\* <<>> is nil, <<v>> points to v. healthchecks lists profile names.
RawBackend(address, priority, latitude, longitude, healthchecks) ==
    [address |-> address, priority |-> priority, latitude |-> latitude,
     longitude |-> longitude, healthchecks |-> healthchecks]

Plain == RawBackend("10.0.0.1", 0, <<>>, <<>>, <<>>)
\* the same address with every other field changed
Moved == RawBackend("10.0.0.1", 1, <<1>>, <<0>>, <<"https_default">>)
Second == RawBackend("10.0.0.2", 0, <<>>, <<>>, <<>>)
LatitudeOnly == RawBackend("10.0.0.1", 0, <<1>>, <<>>, <<>>)
LongitudeOnly == RawBackend("10.0.0.2", 0, <<>>, <<1>>, <<>>)
UndefinedProfile == RawBackend("10.0.0.1", 0, <<>>, <<>>, <<"missing">>)
RawBackends == {Plain, Moved, Second, LatitudeOnly, LongitudeOnly, UndefinedProfile}

\* Backend.UnmarshalYAML without the test that both coordinates are given
BadUnmarshalYAML(raw) ==
    [err |-> FALSE,
     b |-> [Address |-> raw.address, Priority |-> raw.priority,
            CoordinatesSet |-> raw.latitude # <<>>,
            Latitude |-> IF raw.latitude # <<>> THEN raw.latitude[1] ELSE 0,
            Longitude |-> IF raw.longitude # <<>> THEN raw.longitude[1] ELSE 0,
            HealthChecks |-> raw.healthchecks,
            Alive |-> FALSE, LastHealthcheck |-> 0, ResponseTime |-> 0]]

\* Backend.UnmarshalYAML: the backend a YAML entry makes, or an error
UnmarshalYAML(raw) ==
    IF (raw.latitude = <<>>) # (raw.longitude = <<>>)
    THEN [err |-> TRUE,
          b |-> [Address |-> raw.address, Priority |-> raw.priority,
                 CoordinatesSet |-> FALSE, Latitude |-> 0, Longitude |-> 0,
                 HealthChecks |-> <<>>,
                 Alive |-> FALSE, LastHealthcheck |-> 0, ResponseTime |-> 0]]
    ELSE [err |-> FALSE,
          b |-> [Address |-> raw.address, Priority |-> raw.priority,
                 CoordinatesSet |-> raw.latitude # <<>> /\ raw.longitude # <<>>,
                 Latitude |-> IF raw.latitude # <<>> THEN raw.latitude[1] ELSE 0,
                 Longitude |-> IF raw.longitude # <<>> THEN raw.longitude[1] ELSE 0,
                 HealthChecks |-> raw.healthchecks,
                 Alive |-> FALSE, LastHealthcheck |-> 0, ResponseTime |-> 0]]

\* processRecordHealthchecks: a reference to a profile the file does not
\* define is an error
processRecordHealthchecks(rawBackends) ==
    [err |-> \E i \in 1 .. Len(rawBackends), k \in 1 .. MaxProbes :
                 /\ k <= Len(rawBackends[i].healthchecks)
                 /\ rawBackends[i].healthchecks[k] \notin HealthcheckProfiles]

\* A record entry of the file is its list of backend entries. The Record made
\* of it: yaml.Unmarshal(recordBytes, &record), record.Fqdn = fqdn. The field
\* yaml remembers the entry the record was last configured from.
NewRecord(fqdn, rawBackends) ==
    [Fqdn |-> fqdn,
     Backends |-> [i \in 1 .. Len(rawBackends) |-> UnmarshalYAML(rawBackends[i]).b],
     cancelFunc |-> "nil",
     yaml |-> rawBackends]

\* the record entries a file may hold
RecordEntries ==
    {<<Plain>>, <<Moved>>, <<Plain, Second>>, <<>>, <<LatitudeOnly>>, <<UndefinedProfile>>}

\* the entry is rejected: a profile is undefined or a backend does not unmarshal
Rejected(rawBackends) ==
    \/ processRecordHealthchecks(rawBackends).err
    \/ \E i \in 1 .. Len(rawBackends) : UnmarshalYAML(rawBackends[i]).err

\* The contents of the zone's file: unreadable, empty, not YAML, or a map of
\* record entries. The second name has one entry only.
YamlFiles ==
    UNION {[S -> RecordEntries] : S \in SUBSET (Names \cup {Stranger})}
Files ==
    {[kind |-> k, records |-> [n \in {} |-> <<>>]] : k \in {"unreadable", "empty", "invalid"}}
    \cup {[kind |-> "yaml", records |-> r] :
             r \in {f \in YamlFiles :
                       \A n \in DOMAIN f : n # "a.example.com." => f[n] = <<Plain>>}}

\* loadConfigFile(gslb, fileName, zone) on a GSLB without records: what it
\* returns and what it leaves in gslb.Records[zone] (made: the zone's map was
\* created). The entries are visited in the order of a map: an error leaves
\* behind the records of the entries visited before the offending one.
loadConfigFile(file, zone) ==
    IF file.kind # "yaml"
    THEN {[err |-> TRUE, made |-> FALSE, records |-> [n \in {} |-> NewRecord(n, <<>>)]]}
    ELSE LET bad == {n \in DOMAIN file.records :
                        ~HasSuffix(n, zone) \/ Rejected(file.records[n])}
             good == DOMAIN file.records \ bad
         IN  IF bad = {}
             THEN {[err |-> FALSE, made |-> TRUE,
                    records |-> [n \in good |-> NewRecord(n, file.records[n])]]}
             ELSE {[err |-> TRUE, made |-> TRUE,
                    records |-> [n \in S |-> NewRecord(n, file.records[n])]] :
                      S \in SUBSET good}

\* pointers to Record objects: the name and the time of the load that made it
Ptr(n, at) == [name |-> n, born |-> at]

\* the record is registered: g.Records holds a pointer to it
Registered(id) == \E z \in DOMAIN Records : \E n \in DOMAIN Records[z] : Records[z][n] = id
RegisteredNames == IF Zone \in DOMAIN Records THEN DOMAIN Records[Zone] ELSE {}

\* the context updateRecords hands to scrapeBackends: the ctx of its caller
BadReloadContext == "recordCtx"
ReloadContext == "ctx"

\* Backend.updateBackend replaced by taking the new backend as it is
BadupdateBackend(b, newBackend) == newBackend

\* Backend.updateBackend: every configured field that differs is copied
updateBackend(b, newBackend) ==
    [b EXCEPT !.Priority = newBackend.Priority,
              !.CoordinatesSet = newBackend.CoordinatesSet,
              !.Latitude = newBackend.Latitude,
              !.Longitude = newBackend.Longitude,
              !.HealthChecks = newBackend.HealthChecks]

\* Record.updateRecord: the record is updated in place; a backend whose
\* address the record already has is updated in place, another is taken as
\* new, one that is no longer configured is dropped
updateRecord(r, newRecord) ==
    [r EXCEPT !.yaml = newRecord.yaml,
              !.Backends =
                 [j \in 1 .. Len(newRecord.Backends) |->
                     IF \E i \in 1 .. Len(r.Backends) :
                            r.Backends[i].Address = newRecord.Backends[j].Address
                     THEN LET i == CHOOSE i \in 1 .. Len(r.Backends) :
                                      r.Backends[i].Address = newRecord.Backends[j].Address
                          IN  updateBackend(r.Backends[i], newRecord.Backends[j])
                     ELSE newRecord.Backends[j]]]

\* a goroutine whose context is canceled returns; an object nothing points to
\* any more is collected
Live(ts, cs) == {t \in ts : ~(t.ctx = "recordCtx" /\ t.rec \in cs)}
Reachable(recs, ts, ws) ==
    UNION {{recs[z][n] : n \in DOMAIN recs[z]} : z \in DOMAIN recs}
    \cup {t.rec : t \in ts} \cup ws

\* g.Records is replaced by the records of newGSLB
BadupdateRecords(newRecords, at) ==
    LET fresh == {Ptr(n, at) : n \in DOMAIN newRecords}
    IN  /\ Records' = [z \in {Zone} |-> [n \in DOMAIN newRecords |-> Ptr(n, at)]]
        /\ tasks' = {[rec |-> id, ctx |-> ReloadContext] : id \in fresh}
        /\ canceled' = canceled
        /\ heap' = [id \in fresh \cup waiting |->
                       IF id \in fresh THEN newRecords[id.name] ELSE heap[id]]

\* updateRecords(ctx, newGSLB), newRecords being newGSLB.Records[zone]: a
\* zone g.Records does not have is skipped; a new name is registered and its
\* scrapeBackends started with ctx; a registered name is updated in place; a
\* name no longer configured is canceled, if it has a cancelFunc, and deleted
updateRecords(newRecords, at) ==
    IF Zone \notin DOMAIN Records
    THEN UNCHANGED <<Records, heap, tasks, canceled>>
    ELSE LET oldRecords == Records[Zone]
             added == DOMAIN newRecords \ DOMAIN oldRecords
             kept == DOMAIN newRecords \cap DOMAIN oldRecords
             removed == DOMAIN oldRecords \ DOMAIN newRecords
             cs == canceled \cup {oldRecords[n] : n \in {m \in removed :
                                      heap[oldRecords[m]].cancelFunc # "nil"}}
             recs == [Records EXCEPT ![Zone] =
                         [n \in DOMAIN newRecords |->
                             IF n \in kept THEN oldRecords[n] ELSE Ptr(n, at)]]
             ts == Live(tasks \cup {[rec |-> Ptr(n, at), ctx |-> ReloadContext] : n \in added},
                        cs)
             objs == [id \in DOMAIN heap \cup {Ptr(n, at) : n \in added} |->
                         IF id \notin DOMAIN heap THEN newRecords[id.name]
                         ELSE IF id.name \in kept /\ oldRecords[id.name] = id
                         THEN updateRecord(heap[id], newRecords[id.name])
                         ELSE heap[id]]
         IN  /\ Records' = recs
             /\ tasks' = ts
             /\ canceled' = cs
             /\ heap' = [id \in DOMAIN objs \cap Reachable(recs, ts, waiting) |-> objs[id]]

\* reloadConfig goes on although loadConfigFile returned an error
BadFailed(outcome) == FALSE
\* if err := loadConfigFile(newGSLB, filePath, zone); err != nil { return err }
Failed(outcome) == outcome.err

\* reloadConfig(g, filePath, zone): the file is loaded into a new GSLB and,
\* if that succeeds, updateRecords merges it into g. Reloads are debounced:
\* time passes between two of them.
reloadConfig(file) ==
    /\ now < MaxTime
    /\ now' = now + 1
    /\ \E outcome \in loadConfigFile(file, Zone) :
          /\ event' = [NoEvent EXCEPT
                          !.kind = "reload", !.names = DOMAIN file.records,
                          !.err = outcome.err,
                          !.changed =
                             IF Failed(outcome) \/ Zone \notin DOMAIN Records THEN {}
                             ELSE {n \in DOMAIN outcome.records \cap DOMAIN Records[Zone] :
                                      heap[Records[Zone][n]].yaml # outcome.records[n].yaml}]
          \* a newGSLB.Records without the zone gives updateRecords nothing to do
          /\ IF Failed(outcome) \/ ~outcome.made
             THEN UNCHANGED <<Records, heap, tasks, canceled>>
             ELSE updateRecords(outcome.records, now + 1)
    /\ UNCHANGED <<mode, backends, geo, RoundRobinIndex, rrCalls, last, LastResolution,
                   reply, probeVars, waiting, lockVars, unitVars, raceVars>>

\* initializeRecordsFromFiles, the goroutine of a group once its delay has
\* passed, for one record of the group: the record gets its own context and
\* cancelFunc and its scrapeBackends is started
StartRecord(id) ==
    /\ id \in waiting
    /\ waiting' = waiting \ {id}
    /\ heap' = [heap EXCEPT ![id].cancelFunc = "cancel"]
    /\ tasks' = tasks \cup {[rec |-> id, ctx |-> StartContext]}
    /\ event' = [NoEvent EXCEPT !.kind = "start", !.rec = id]
    /\ UNCHANGED <<mode, backends, geo, RoundRobinIndex, rrCalls, last, serveVars,
                   probeVars, Records, canceled, lockVars, unitVars, raceVars>>

\* elapsed := time.Since(start), in the unit of the response times
ProbeDuration == 1

\* scrapeBackends of a record, one turn of its loop: after its interval a
\* health check cycle runs for every backend of the record and writes
\* LastHealthcheck, Alive and ResponseTime
ProbeCycle(t) ==
    /\ t \in tasks
    /\ now < MaxTime
    /\ now' = now + 1
    /\ \E alive \in [1 .. Len(heap[t.rec].Backends) -> BOOLEAN] :
          heap' = [heap EXCEPT ![t.rec].Backends =
                      [i \in 1 .. Len(heap[t.rec].Backends) |->
                          [heap[t.rec].Backends[i] EXCEPT
                              !.LastHealthcheck = now + 1, !.Alive = alive[i],
                              !.ResponseTime = ProbeDuration]]]
    /\ event' = [NoEvent EXCEPT !.kind = "probe", !.rec = t.rec]
    /\ UNCHANGED <<mode, backends, geo, RoundRobinIndex, rrCalls, last, LastResolution,
                   reply, probeVars, Records, tasks, canceled, waiting, lockVars, unitVars, raceVars>>

\* the state when initializeRecordsFromFiles returns: the zone's file was
\* loaded into g.Records, the records are batched and their groups wait
InitReload ==
    /\ NotSelecting
    /\ NotProbing
    /\ now = 0
    /\ \E file \in Files : \E outcome \in loadConfigFile(file, Zone) :
          /\ Records = IF outcome.made
                       THEN [z \in {Zone} |->
                                [n \in DOMAIN outcome.records |-> Ptr(n, 0)]]
                       ELSE NoRecords
          /\ heap = [id \in {Ptr(n, 0) : n \in DOMAIN outcome.records} |->
                        outcome.records[id.name]]
          /\ event = [NoEvent EXCEPT !.kind = "load",
                                      !.names = DOMAIN file.records, !.err = outcome.err]
    /\ waiting = DOMAIN heap
    /\ tasks = {}
    /\ canceled = {}
    /\ pc = [p \in Procs |-> Idle]
    /\ Mutex = Unlocked
    /\ mutex = Unlocked
    /\ NotChecking

NextReload ==
    \/ \E file \in Files : reloadConfig(file)
    \/ \E id \in DOMAIN heap : StartRecord(id)
    \/ \E t \in tasks : ProbeCycle(t)

SpecReload == InitReload /\ [][NextReload]_vars

\* A second zone of g.Zones with a file of its own, loaded at start-up with
\* one record; the file of the first zone is the one that is reloaded.
OtherZone == "example.net."
OtherName == "c.example.net."
OtherRecord == Ptr(OtherName, 0)
\* the files of the first zone in the runs with two zones
ZoneFiles ==
    {file \in Files :
        /\ Stranger \notin DOMAIN file.records
        /\ file.kind \in {"unreadable", "yaml"}
        /\ \A n \in DOMAIN file.records : file.records[n] \in {<<Plain>>, <<Moved>>}}

\* the state when initializeRecordsFromFiles returns, both files loaded
InitZones ==
    /\ NotSelecting
    /\ NotProbing
    /\ now = 0
    /\ \E file \in ZoneFiles : \E outcome \in loadConfigFile(file, Zone) :
          /\ ~outcome.err
          /\ Records = [z \in {Zone, OtherZone} |->
                           IF z = Zone THEN [n \in DOMAIN outcome.records |-> Ptr(n, 0)]
                           ELSE [n \in {OtherName} |-> OtherRecord]]
          /\ heap = [id \in {Ptr(n, 0) : n \in DOMAIN outcome.records} \cup {OtherRecord} |->
                        IF id = OtherRecord THEN NewRecord(OtherName, <<Plain>>)
                        ELSE outcome.records[id.name]]
          /\ event = [NoEvent EXCEPT !.kind = "load",
                                      !.names = DOMAIN file.records, !.err = outcome.err]
    /\ waiting = DOMAIN heap
    /\ tasks = {}
    /\ canceled = {}
    /\ pc = [p \in Procs |-> Idle]
    /\ Mutex = Unlocked
    /\ mutex = Unlocked
    /\ NotChecking

NextZones ==
    \/ \E file \in ZoneFiles : reloadConfig(file)
    \/ \E id \in DOMAIN heap : StartRecord(id)
    \/ \E t \in tasks : ProbeCycle(t)

SpecZones == InitZones /\ [][NextZones]_vars

\* ================================================================== locks
\* The statements of a goroutine that take or release a lock or touch shared
\* state. op: Lock, Unlock, RLock, RUnlock on GSLB.Mutex ("Mutex") or on
\* Backend.mutex ("mutex"); read or write of a field; io on a file or the
\* network.
St(op, on) == [op |-> op, on |-> on]

\* IsHealthy that returns without releasing the backend's lock
BadIsHealthyCall == <<St("RLock", "mutex"), St("read", "Alive")>>

\* backend.IsHealthy() and backend.GetResponseTime()
IsHealthyCall == <<St("RLock", "mutex"), St("read", "Alive"), St("RUnlock", "mutex")>>
GetResponseTimeCall ==
    <<St("RLock", "mutex"), St("read", "ResponseTime"), St("RUnlock", "mutex")>>

\* ServeDNS for an A question of a record of the mode, or for a TXT question;
\* reloadConfig; runHealthChecks of the backend
Program(prog) ==
    CASE prog = "failover" ->
            <<St("read", "Records"), St("read", "Backends")>> \o IsHealthyCall
      [] prog = "roundrobin" ->
            <<St("read", "Records"), St("Lock", "Mutex"), St("read", "RoundRobinIndex"),
              St("read", "Backends")>> \o IsHealthyCall
            \o <<St("write", "RoundRobinIndex"), St("Unlock", "Mutex")>>
      [] prog = "random" ->
            <<St("read", "Records"), St("Lock", "Mutex"), St("read", "Backends")>>
            \o IsHealthyCall \o <<St("Unlock", "Mutex")>>
      [] prog = "geoip" ->
            <<St("read", "Records"), St("RLock", "Mutex"), St("read", "LocationMap"),
              St("RUnlock", "Mutex"), St("read", "Backends")>> \o IsHealthyCall
      [] prog = "TXT" ->
            <<St("read", "Records"), St("read", "Backends")>> \o IsHealthyCall
            \o <<St("read", "LastHealthcheck")>> \o GetResponseTimeCall
      [] prog \in {"weighted", "nearest"} ->
            <<St("read", "Records"), St("read", "Backends")>> \o IsHealthyCall
      [] prog = "fastest" ->
            <<St("read", "Records"), St("read", "Backends")>> \o IsHealthyCall
            \o GetResponseTimeCall
      [] prog = "loadCustomLocationsMap" ->
            <<St("Lock", "Mutex"), St("io", "file"), St("write", "LocationMap"),
              St("Unlock", "Mutex")>>
      [] prog = "reloadConfig" ->
            <<St("Lock", "Mutex"), St("io", "file"), St("write", "Records"),
              St("Lock", "mutex"), St("write", "Priority"), St("Unlock", "mutex"),
              St("Unlock", "Mutex")>>
      [] prog = "runHealthChecks" ->
            <<St("Lock", "mutex"), St("write", "LastHealthcheck"), St("Unlock", "mutex"),
              St("io", "network"), St("read", "Alive"),
              St("Lock", "mutex"), St("write", "Alive"), St("write", "ResponseTime"),
              St("Unlock", "mutex"), St("read", "Alive")>>
      [] OTHER -> <<>>

\* what each goroutine may run
ProgramsOf(p) ==
    CASE p = "reload" -> {"reloadConfig"}
      [] p = "probe" -> {"runHealthChecks"}
      [] p = "locations" -> {"loadCustomLocationsMap"}
      [] p = "query" -> {"failover", "roundrobin", "random", "weighted", "nearest",
                         "fastest", "geoip", "TXT"}
      [] OTHER -> {"failover", "roundrobin", "random", "geoip", "TXT"}

Running(p) == pc[p].prog # "idle"
\* the statement the goroutine executes next
Stmt(p) == Program(pc[p].prog)[pc[p].at]
At(p, op, on) == Running(p) /\ Stmt(p) = St(op, on)
\* the goroutine goes on to its next statement, or returns
Step(p) ==
    pc' = [pc EXCEPT ![p] = IF pc[p].at = Len(Program(pc[p].prog)) THEN Idle
                            ELSE [pc[p] EXCEPT !.at = pc[p].at + 1]]

LockNames == {"Mutex", "mutex"}
TheLock(on) == IF on = "Mutex" THEN Mutex ELSE mutex
\* the locks after the one named on has become l
SetLock(on, l) ==
    /\ Mutex' = IF on = "Mutex" THEN l ELSE Mutex
    /\ mutex' = IF on = "mutex" THEN l ELSE mutex

\* the goroutine starts a call
Call(p, prog) ==
    /\ ~Running(p)
    /\ prog \in ProgramsOf(p)
    /\ pc' = [pc EXCEPT ![p] = [prog |-> prog, at |-> 1]]
    /\ UNCHANGED <<mode, backends, geo, RoundRobinIndex, rrCalls, last, serveVars,
                   probeVars, reloadVars, unitVars, raceVars, Mutex, mutex>>

\* sync.RWMutex.Lock: waits until nobody holds the lock
Lock(p) ==
    \E on \in LockNames :
        /\ At(p, "Lock", on)
        /\ TheLock(on) = Unlocked
        /\ SetLock(on, [writer |-> p, readers |-> {}])
        /\ Step(p)
        /\ UNCHANGED <<mode, backends, geo, RoundRobinIndex, rrCalls, last, serveVars,
                       probeVars, reloadVars, unitVars, raceVars>>

Unlock(p) ==
    \E on \in LockNames :
        /\ At(p, "Unlock", on)
        /\ SetLock(on, [TheLock(on) EXCEPT !.writer = ""])
        /\ Step(p)
        /\ UNCHANGED <<mode, backends, geo, RoundRobinIndex, rrCalls, last, serveVars,
                       probeVars, reloadVars, unitVars, raceVars>>

\* sync.RWMutex.RLock: waits while a writer holds the lock
RLock(p) ==
    \E on \in LockNames :
        /\ At(p, "RLock", on)
        /\ TheLock(on).writer = ""
        /\ SetLock(on, [TheLock(on) EXCEPT !.readers = @ \cup {p}])
        /\ Step(p)
        /\ UNCHANGED <<mode, backends, geo, RoundRobinIndex, rrCalls, last, serveVars,
                       probeVars, reloadVars, unitVars, raceVars>>

RUnlock(p) ==
    \E on \in LockNames :
        /\ At(p, "RUnlock", on)
        /\ SetLock(on, [TheLock(on) EXCEPT !.readers = @ \ {p}])
        /\ Step(p)
        /\ UNCHANGED <<mode, backends, geo, RoundRobinIndex, rrCalls, last, serveVars,
                       probeVars, reloadVars, unitVars, raceVars>>

\* a read, a write, or an input/output operation
Access(p) ==
    /\ Running(p)
    /\ Stmt(p).op \in {"read", "write", "io"}
    /\ Step(p)
    /\ UNCHANGED <<mode, backends, geo, RoundRobinIndex, rrCalls, last, serveVars,
                   probeVars, reloadVars, unitVars, raceVars, Mutex, mutex>>

InitLocks ==
    /\ NotSelecting
    /\ NotProbing
    /\ now = 0
    /\ NotReloading
    /\ NotChecking

NextLocks ==
    \/ \E p \in Procs : \E prog \in ProgramsOf(p) : Call(p, prog)
    \/ \E p \in Procs : Lock(p)
    \/ \E p \in Procs : Unlock(p)
    \/ \E p \in Procs : RLock(p)
    \/ \E p \in Procs : RUnlock(p)
    \/ \E p \in Procs : Access(p)

SpecLocks == InitLocks /\ [][NextLocks]_vars

\* A query of any mode, a reload of a zone file, a health check cycle and a
\* reload of the location map.
AllProcs == {"query", "reload", "probe", "locations"}

InitAll ==
    /\ NotSelecting
    /\ NotProbing
    /\ now = 0
    /\ Records = NoRecords
    /\ heap = [id \in {} |-> <<>>]
    /\ tasks = {}
    /\ canceled = {}
    /\ waiting = {}
    /\ event = NoEvent
    /\ pc = [p \in AllProcs |-> Idle]
    /\ Mutex = Unlocked
    /\ mutex = Unlocked
    /\ NotChecking

NextAll ==
    \/ \E p \in AllProcs : \E prog \in ProgramsOf(p) : Call(p, prog)
    \/ \E p \in AllProcs : Lock(p)
    \/ \E p \in AllProcs : Unlock(p)
    \/ \E p \in AllProcs : RLock(p)
    \/ \E p \in AllProcs : RUnlock(p)
    \/ \E p \in AllProcs : Access(p)

SpecAll == InitAll /\ [][NextAll]_vars

\* A goroutine that can run does run; sync.Mutex and sync.RWMutex hand the
\* lock to a goroutine that keeps waiting for it (starvation mode of Mutex,
\* a waiting writer holds back new readers). No query, reload or cycle has to
\* begin.
FairLocks ==
    \A p \in AllProcs :
        /\ WF_vars(Unlock(p) \/ RUnlock(p) \/ Access(p))
        /\ SF_vars(Lock(p))
        /\ SF_vars(RLock(p))

SpecAllFair == SpecAll /\ FairLocks

\* ================================================= round-robin, both families
\* a record with one backend more than the selection model has, every backend
\* enabled, at least one alive backend of each family
MixedBackendLists ==
    {bs \in {[i \in 1 .. MaxBackends + 1 |-> NewBackend(i, f[i], TRUE, a[i])] :
                f \in [1 .. MaxBackends + 1 -> Families],
                a \in [1 .. MaxBackends + 1 -> BOOLEAN]} :
        \A recordType \in RecordTypes : Len(HealthyBackends(bs, recordType)) > 0}

\* one query of a sequence that mixes A and AAAA queries for the record
QueryMixed ==
    /\ mode = "roundrobin"
    /\ rrCalls.n < MaxCalls
    /\ \E recordType \in RecordTypes :
          /\ Respond(recordType, NoClient, NoDraw)
          /\ rrCalls' = [n |-> rrCalls.n + 1,
                         recordType |-> IF rrCalls.recordType \in {"none", recordType}
                                        THEN recordType ELSE "mixed"]
          /\ answers' = Append(answers, [recordType |-> recordType, ips |-> last'.ips])
    /\ UNCHANGED <<serveVars, probeVars, reloadVars, lockVars, check, stagger,
                   LocationMap, mapLoad, raceVars>>

\* the record is only queried and the health of its backends does not change
InitMixed ==
    /\ mode = "roundrobin"
    /\ geo = GeoAbsent
    /\ backends \in MixedBackendLists
    /\ RoundRobinIndex = [d \in {} |-> 0]
    /\ rrCalls = [n |-> 0, recordType |-> "none"]
    /\ last = NoCall
    /\ now = 0
    /\ LastResolution = NeverResolved
    /\ reply = NoReply
    /\ NotProbing
    /\ NotReloading
    /\ NotChecking

NextMixed == QueryMixed

SpecMixed == InitMixed /\ [][NextMixed]_vars

\* ====================================================== HTTP health check
\* expected_code of the check, and the status codes the backend answers with
ExpectedCode == 200
StatusCodes == {200, 503}
Bodies == {"ok", "ko"}
\* expected_body: none, a pattern, a pattern that does not compile
ExpectedBodies == {"", "ok", "("}
\* timeout of the check: a duration, or a string time.ParseDuration rejects
Timeouts == {"5s", "soon"}
\* method of the check: one http.NewRequestWithContext accepts, one it rejects
Methods == {"GET", "G T"}
HTTPHealthChecks ==
    {[ExpectedBody |-> e, Timeout |-> t, Method |-> m] :
        e \in ExpectedBodies, t \in Timeouts, m \in Methods}

\* client.Do(req): an error, or a response with its status code and body
Responses ==
    {[err |-> TRUE, StatusCode |-> 0, Body |-> ""]}
    \cup {[err |-> FALSE, StatusCode |-> c, Body |-> b] : c \in StatusCodes, b \in Bodies}

\* regexp.MatchString(pattern, s) for the patterns and bodies above
MatchString(pattern, body) == [matched |-> pattern = body, err |-> pattern = "("]

\* checkExpectedBody: an error when the pattern does not compile or the body
\* does not match it
checkExpectedBody(h, body) ==
    LET m == MatchString(h.ExpectedBody, body)
    IN  [err |-> m.err \/ ~m.matched]

\* the attempt is taken for a success whatever its body
BadAccepted(h, resp) == ~resp.err /\ resp.StatusCode = ExpectedCode

\* retryHealthCheck returns the response: no error, the expected status and,
\* if a body is expected, a body that passes checkExpectedBody
Accepted(h, resp) ==
    /\ ~resp.err
    /\ resp.StatusCode = ExpectedCode
    /\ h.ExpectedBody # "" => ~checkExpectedBody(h, resp.Body).err

\* retryHealthCheck, one turn of `for retry := 0; retry <= maxRetries; retry++`
\* with resp the outcome of client.Do
retryHealthCheck(c, resp) ==
    LET tried == [c EXCEPT !.attempts = Append(@, resp)]
    IN  IF Accepted(c.h, resp) THEN [tried EXCEPT !.at = "returned", !.result = TRUE]
        ELSE IF c.retry = c.maxRetries
        THEN [tried EXCEPT !.at = "returned", !.result = FALSE]
        ELSE [tried EXCEPT !.retry = @ + 1]

\* PerformCheck up to the call of retryHealthCheck: false is returned when the
\* timeout does not parse or the request cannot be made
PerformCheck ==
    /\ check.at = "called"
    /\ check' = IF check.h.Timeout \notin {"5s"} \/ check.h.Method \notin {"GET"}
                THEN [check EXCEPT !.at = "returned", !.result = FALSE]
                ELSE [check EXCEPT !.at = "retry"]
    /\ UNCHANGED <<selectVars, serveVars, probeVars, reloadVars, lockVars, stagger,
                   LocationMap, mapLoad, answers, raceVars>>

\* one request of the retry loop and what the loop does with its outcome
Do(resp) ==
    /\ check.at = "retry"
    /\ check.retry <= check.maxRetries
    /\ check' = retryHealthCheck(check, resp)
    /\ UNCHANGED <<selectVars, serveVars, probeVars, reloadVars, lockVars, stagger,
                   LocationMap, mapLoad, answers, raceVars>>

InitHTTP ==
    /\ NotSelecting
    /\ NotProbing
    /\ now = 0
    /\ NotReloading
    /\ \E h \in HTTPHealthChecks, n \in 0 .. MaxRetries :
          check = [NoCheck EXCEPT !.h = h, !.maxRetries = n, !.at = "called"]
    /\ stagger = NoStagger
    /\ LocationMap = NilMap
    /\ mapLoad = NoMapLoad
    /\ answers = <<>>
    /\ shared = NoShared
    /\ frames = NoFrames

NextHTTP ==
    \/ PerformCheck
    \/ \E resp \in Responses : Do(resp)

SpecHTTP == InitHTTP /\ [][NextHTTP]_vars

\* ========================================================= staggered start
\* x / y of two Go integers: the quotient truncated toward zero
Quo(x, y) == IF x >= 0 THEN x \div y ELSE 0 - ((0 - x) \div y)

\* the orders in which `range g.Records` may visit n records
Orders(n) == {o \in [1 .. n -> 1 .. n] : \A i, j \in 1 .. n : o[i] = o[j] => i = j}

\* batchRecords, the loop: groups are the groups closed so far, current the open one
RECURSIVE Batch(_, _, _, _)
Batch(order, batchSize, groups, current) ==
    IF order = <<>>
    THEN IF Len(current) > 0 THEN Append(groups, current) ELSE groups
    ELSE LET filled == Append(current, Head(order))
         IN  IF Len(filled) = batchSize
             THEN Batch(Tail(order), batchSize, Append(groups, filled), <<>>)
             ELSE Batch(Tail(order), batchSize, groups, filled)

\* batchRecords(batchSize) over the records in the order the maps give them
batchRecords(order, batchSize) == Batch(order, batchSize, <<>>, <<>>)

\* the whole window is taken for the step between two groups
BadstaggerDelay(totalBatches, maxStagger) == maxStagger

\* staggerDelay(totalBatches), maxStagger being g.GetMaxStaggerStart()
staggerDelay(totalBatches, maxStagger) ==
    IF totalBatches = 0 THEN 0 ELSE Quo(maxStagger, totalBatches)

\* initializeRecordsFromFiles once the files are loaded: the records are
\* batched and a goroutine is started for every group with its delay
StartGroups ==
    /\ stagger.at = "loaded"
    /\ LET groups == batchRecords(stagger.order, stagger.batchSize)
       IN  stagger' = [stagger EXCEPT
                          !.at = "batched", !.groups = groups,
                          !.delays = [i \in 1 .. Len(groups) |->
                                         (i - 1) * staggerDelay(Len(groups), stagger.maxStagger)],
                          !.started = [i \in 1 .. Len(groups) |-> 0 - 1]]
    /\ UNCHANGED <<selectVars, serveVars, probeVars, reloadVars, lockVars, check,
                   LocationMap, mapLoad, answers, raceVars>>

\* time passes
Elapse ==
    /\ stagger.at = "batched"
    /\ stagger.clock < MaxStagger
    /\ stagger' = [stagger EXCEPT !.clock = @ + 1]
    /\ UNCHANGED <<selectVars, serveVars, probeVars, reloadVars, lockVars, check,
                   LocationMap, mapLoad, answers, raceVars>>

\* the goroutine of group i: time.Sleep(delay) has returned and the
\* scrapeBackends of the group's records are started
StartGroup(i) ==
    /\ stagger.at = "batched"
    /\ i \in 1 .. Len(stagger.groups)
    /\ stagger.started[i] < 0
    /\ stagger.clock >= stagger.delays[i]
    /\ stagger' = [stagger EXCEPT !.started[i] = stagger.clock]
    /\ UNCHANGED <<selectVars, serveVars, probeVars, reloadVars, lockVars, check,
                   LocationMap, mapLoad, answers, raceVars>>

InitStagger ==
    /\ NotSelecting
    /\ NotProbing
    /\ now = 0
    /\ NotReloading
    /\ check = NoCheck
    /\ \E n \in 0 .. MaxRecords, size \in 1 .. MaxBatchSize,
          d \in (0 - MaxStagger) .. MaxStagger :
          \E o \in Orders(n) :
             stagger = [NoStagger EXCEPT !.batchSize = size, !.maxStagger = d,
                                         !.order = o, !.at = "loaded"]
    /\ LocationMap = NilMap
    /\ mapLoad = NoMapLoad
    /\ answers = <<>>
    /\ shared = NoShared
    /\ frames = NoFrames

NextStagger ==
    \/ StartGroups
    \/ Elapse
    \/ \E i \in 1 .. MaxRecords : StartGroup(i)

SpecStagger == InitStagger /\ [][NextStagger]_vars

\* ============================================================ location map
Subnets == {"10.0.0.0/8", "192.168.0.0/16"}
Locations == {"eu-west-1", "us-east-1"}
\* the `subnets` list of the file: entries of subnet and location
SubnetLists ==
    UNION {[1 .. n -> [Subnet : Subnets, Location : Locations]] : n \in 0 .. MaxSubnets}
\* what is at the path: nothing readable, something yaml.Unmarshal rejects, or
\* a list of subnets
MapFiles ==
    {[kind |-> k, subnets |-> <<>>] : k \in {"unreadable", "invalid"}}
    \cup {[kind |-> "yaml", subnets |-> l] : l \in SubnetLists}
MapPaths == {"", "location_map.yml"}

\* m := make(map[string]string); for _, s := range parsed.Subnets { m[s.Subnet] = s.Location }
RECURSIVE MakeMap(_, _)
MakeMap(subnets, m) ==
    IF subnets = <<>> THEN m
    ELSE LET e == Head(subnets)
         IN  MakeMap(Tail(subnets),
                     [s \in DOMAIN m \cup {e.Subnet} |->
                         IF s = e.Subnet THEN e.Location ELSE m[s]])

\* the file's entries are added to the map that was there
BadloadCustomLocationsMap(old, path, file) ==
    IF path = "" THEN [err |-> FALSE, LocationMap |-> NilMap]
    ELSE IF file.kind # "yaml" THEN [err |-> TRUE, LocationMap |-> old]
    ELSE [err |-> FALSE, LocationMap |-> [nil |-> FALSE, m |-> MakeMap(file.subnets, old.m)]]

\* loadCustomLocationsMap(path) with file at the path and old in g.LocationMap:
\* the error returned and the map left in g.LocationMap
loadCustomLocationsMap(old, path, file) ==
    IF path = "" THEN [err |-> FALSE, LocationMap |-> NilMap]
    ELSE IF file.kind # "yaml" THEN [err |-> TRUE, LocationMap |-> old]
    ELSE [err |-> FALSE,
          LocationMap |-> [nil |-> FALSE, m |-> MakeMap(file.subnets, NilMap.m)]]

\* a call of loadCustomLocationsMap: at start-up, or by the watcher of the file
LoadLocations(path, file) ==
    /\ mapLoad.calls < MaxLoads
    /\ LET r == loadCustomLocationsMap(LocationMap, path, file)
       IN  /\ LocationMap' = r.LocationMap
           /\ mapLoad' = [path |-> path, file |-> file, err |-> r.err,
                          before |-> LocationMap, calls |-> mapLoad.calls + 1]
    /\ UNCHANGED <<selectVars, serveVars, probeVars, reloadVars, lockVars, check,
                   stagger, answers, raceVars>>

InitMap ==
    /\ NotSelecting
    /\ NotProbing
    /\ now = 0
    /\ NotReloading
    /\ NotChecking

NextMap == \E path \in MapPaths, file \in MapFiles : LoadLocations(path, file)

SpecMap == InitMap /\ [][NextMap]_vars

\* ============================================== a reload beside a goroutine
\* The fields of the record's backends that a query and a health check cycle
\* read without Backend.mutex while updateBackend assigns them under it:
\* shared[i] holds Weight and HealthChecks of backend i. Every backend is an
\* enabled, alive IPv4 backend and the query is an A query.
CheckLists == {SubSeq(<<"http", "tcp", "icmp", "grpc">>, 1, n) : n \in 0 .. MaxProbes}
ProbedBackend == CHOOSE i \in Idx : \A j \in Idx : i <= j

\* updateBackend: b.Weight = newBackend.GetWeight()
SetWeight(j, newBackend) ==
    /\ frames.reloads < MaxReloads
    /\ shared[j].Weight # GetWeight(newBackend)
    /\ shared' = [shared EXCEPT ![j].Weight = GetWeight(newBackend)]
    /\ frames' = [frames EXCEPT !.reloads = @ + 1]
    /\ UNCHANGED <<selectVars, serveVars, probeVars, reloadVars, lockVars, unitVars>>

\* updateBackend: b.HealthChecks = newBackend.GetHealthChecks()
SetHealthChecks(j, newBackend) ==
    /\ frames.reloads < MaxReloads
    /\ shared[j].HealthChecks # newBackend.HealthChecks
    /\ shared' = [shared EXCEPT ![j].HealthChecks = newBackend.HealthChecks]
    /\ frames' = [frames EXCEPT !.reloads = @ + 1]
    /\ UNCHANGED <<selectVars, serveVars, probeVars, reloadVars, lockVars, unitVars>>

\* pickBackendWithWeighted is called
WeightedCall ==
    /\ frames.weighted.at = "none"
    /\ frames' = [frames EXCEPT !.weighted = [NoWeighted EXCEPT !.at = "collect", !.i = 1]]
    /\ UNCHANGED <<selectVars, serveVars, probeVars, reloadVars, lockVars, unitVars,
                   shared>>

\* one turn of the first loop: the backend is eligible, its weight is read
\* and added; after the last turn the error exit or rand.Intn(totalWeight)
WeightedCollect ==
    LET f == frames.weighted
    IN  /\ f.at = "collect"
        /\ IF f.i <= Len(shared)
           THEN LET w == GetWeight(shared[f.i])
                IN  frames' = [frames EXCEPT !.weighted =
                                  [f EXCEPT !.i = @ + 1,
                                            !.weightedBackends =
                                               IF w > 0 THEN Append(@, f.i) ELSE @,
                                            !.totalWeight = IF w > 0 THEN @ + w ELSE @]]
           ELSE IF Len(f.weightedBackends) = 0 \/ f.totalWeight = 0
           THEN frames' = [frames EXCEPT !.weighted =
                              [f EXCEPT !.at = "returned", !.err = "no healthy backends"]]
           ELSE \E randVal \in 0 .. f.totalWeight - 1 :
                   frames' = [frames EXCEPT !.weighted =
                                 [f EXCEPT !.at = "scan", !.i = 1, !.randVal = randVal]]
        /\ UNCHANGED <<selectVars, serveVars, probeVars, reloadVars, lockVars, unitVars,
                       shared>>

\* one turn of the roulette wheel loop: the weight is read again; after the
\* last turn the exit `weighted selection failed`
WeightedScan ==
    LET f == frames.weighted
    IN  /\ f.at = "scan"
        /\ IF f.i <= Len(f.weightedBackends)
           THEN LET cumulative == f.cumulative + GetWeight(shared[f.weightedBackends[f.i]])
                IN  frames' = [frames EXCEPT !.weighted =
                                  IF f.randVal < cumulative
                                  THEN [f EXCEPT !.at = "returned", !.cumulative = cumulative,
                                                 !.ips = <<f.weightedBackends[f.i]>>]
                                  ELSE [f EXCEPT !.i = @ + 1, !.cumulative = cumulative]]
           ELSE frames' = [frames EXCEPT !.weighted =
                              [f EXCEPT !.at = "returned",
                                        !.err = "weighted selection failed"]]
        /\ UNCHANGED <<selectVars, serveVars, probeVars, reloadVars, lockVars, unitVars,
                       shared>>

\* the backends of the record as a reload may configure them
NewBackends ==
    {[Weight |-> w, HealthChecks |-> l] : w \in Weights, l \in CheckLists}

InitWeighted ==
    /\ NotSelecting
    /\ NotProbing
    /\ now = 0
    /\ NotReloading
    /\ check = NoCheck
    /\ stagger = NoStagger
    /\ LocationMap = NilMap
    /\ mapLoad = NoMapLoad
    /\ answers = <<>>
    /\ shared \in [Idx -> {b \in NewBackends : b.HealthChecks = <<>>}]
    /\ frames = NoFrames

NextWeighted ==
    \/ WeightedCall
    \/ WeightedCollect
    \/ WeightedScan
    \/ \E j \in Idx, newBackend \in NewBackends : SetWeight(j, newBackend)

SpecWeighted == InitWeighted /\ [][NextWeighted]_vars

\* runHealthChecks of the probed backend up to results := make([]bool, len(b.HealthChecks))
RunMake ==
    /\ frames.runHealthChecks.at = "none"
    /\ frames' = [frames EXCEPT !.runHealthChecks =
                      [NoRun EXCEPT !.at = "list",
                                    !.results = Len(shared[ProbedBackend].HealthChecks)]]
    /\ UNCHANGED <<selectVars, serveVars, probeVars, reloadVars, lockVars, unitVars,
                   shared>>

\* the loop that gathers the types of the health checks
RunList ==
    /\ frames.runHealthChecks.at = "list"
    /\ frames' = [frames EXCEPT !.runHealthChecks.at = "range",
                                !.runHealthChecks.healthChecksList =
                                   shared[ProbedBackend].HealthChecks]
    /\ UNCHANGED <<selectVars, serveVars, probeVars, reloadVars, lockVars, unitVars,
                   shared>>

\* for i, hc := range b.HealthChecks: the slice is read once and a goroutine
\* is started for each of its elements
RunRange ==
    /\ frames.runHealthChecks.at = "range"
    /\ frames' = [frames EXCEPT !.runHealthChecks.at = "wait",
                                !.runHealthChecks.probes = shared[ProbedBackend].HealthChecks]
    /\ UNCHANGED <<selectVars, serveVars, probeVars, reloadVars, lockVars, unitVars,
                   shared>>

\* the goroutine of probe i (counted from 1) assigns results[i]: outside the
\* slice the assignment panics and the process ends
RunResult(i) ==
    LET f == frames.runHealthChecks
    IN  /\ f.at = "wait"
        /\ i \in 1 .. Len(f.probes)
        /\ i \notin f.written
        /\ frames' = [frames EXCEPT !.runHealthChecks =
                          IF i > f.results THEN [f EXCEPT !.at = "panic", !.panic = TRUE]
                          ELSE [f EXCEPT !.written = @ \cup {i}]]
        /\ UNCHANGED <<selectVars, serveVars, probeVars, reloadVars, lockVars, unitVars,
                       shared>>

\* wg.Wait() returns and Alive and ResponseTime are stored
RunReturn ==
    LET f == frames.runHealthChecks
    IN  /\ f.at = "wait"
        /\ f.written = 1 .. Len(f.probes)
        /\ frames' = [frames EXCEPT !.runHealthChecks.at = "returned"]
        /\ UNCHANGED <<selectVars, serveVars, probeVars, reloadVars, lockVars, unitVars,
                       shared>>

InitRun ==
    /\ NotSelecting
    /\ NotProbing
    /\ now = 0
    /\ NotReloading
    /\ check = NoCheck
    /\ stagger = NoStagger
    /\ LocationMap = NilMap
    /\ mapLoad = NoMapLoad
    /\ answers = <<>>
    /\ shared \in [Idx -> {b \in NewBackends : b.Weight = 1}]
    /\ frames = NoFrames

NextRun ==
    \/ RunMake
    \/ RunList
    \/ RunRange
    \/ \E i \in 1 .. MaxProbes : RunResult(i)
    \/ RunReturn
    \/ \E newBackend \in NewBackends : SetHealthChecks(ProbedBackend, newBackend)

SpecRun == InitRun /\ [][NextRun]_vars

\* ================================================================ claims
\* The claims are stated on the record's fields, not through the accessors
\* the policies use.
Positions == 1 .. Len(backends)
FamilyOf(recordType) == IF recordType = "A" THEN "v4" ELSE "v6"
Returned == {last.ips[k] : k \in 1 .. Len(last.ips)}
AddressesOf(S) == {backends[i].Address : i \in S}
Healthy(i) == backends[i].Enable /\ backends[i].Alive
\* healthy backends of the requested family
Candidates(recordType) ==
    {i \in Positions : Healthy(i) /\ backends[i].Address.fam = FamilyOf(recordType)}
Least(S) == CHOOSE i \in S : \A j \in S : i <= j
\* the positions of S in list order
RECURSIVE InOrder(_)
InOrder(S) == IF S = {} THEN <<>> ELSE <<Least(S)>> \o InOrder(S \ {Least(S)})
Picked == last.called /\ last.fn = "pickResponse"

\* C1: in every mode, every address a successful pickResponse returns is the
\* address of a backend of the record that is enabled and alive.
C1_OnlyHealthyReturned ==
    (Picked /\ last.ok) =>
        \A a \in Returned : \E i \in Positions : backends[i].Address = a /\ Healthy(i)

\* C1 witness: a successful selection over a record that also holds a disabled
\* (but alive) or a not-alive backend, answered by the GeoIP policy.
C1_Witness ==
    /\ Picked /\ last.ok /\ Len(last.ips) = 1
    /\ \E i \in Positions : ~Healthy(i) /\ (backends[i].Alive \/ backends[i].Enable)
    /\ mode = "geoip"

\* C2 (as claimed): every returned address is of the requested family, in
\* every mode and every GeoIP tier.
C2_FamilyMatches ==
    Picked => \A a \in Returned : a.fam = FamilyOf(last.recordType)

\* C3 (as claimed): failover returns exactly the healthy matching-family
\* backends of minimum priority, whatever the integer priorities.
C3_FailoverLowestPriority ==
    (Picked /\ mode = "failover") =>
        LET cand == Candidates(last.recordType)
            lowest == {i \in cand : \A j \in cand : backends[i].Priority <= backends[j].Priority}
        IN  /\ Returned = AddressesOf(lowest)
            /\ Len(last.ips) = Cardinality(lowest)
            /\ last.ok = (cand # {})

\* C3 witness of the failing case is the counterexample itself; the scan is
\* right whenever the lowest candidate priority is not -1.
C3_Except_MinusOne ==
    (Picked /\ mode = "failover"
        /\ \A i \in Candidates(last.recordType) : backends[i].Priority # -1) =>
        C3_FailoverLowestPriority

\* C4: round-robin over a fixed set of N >= 1 candidates, all queries so far of
\* one record type, from a fresh cursor: call k returns exactly the candidate
\* at list position k mod N.
C4_RoundRobinCycle ==
    (Picked /\ mode = "roundrobin" /\ rrCalls.recordType = last.recordType
        /\ Candidates(last.recordType) # {}) =>
        LET order == InOrder(Candidates(last.recordType))
        IN  /\ last.ok
            /\ last.ips = <<backends[order[(last.call % Len(order)) + 1]].Address>>

\* C4 witness: the cycle over two candidates has wrapped: the third query of
\* one type (call 2) has been answered.
C4_Witness ==
    /\ Picked /\ mode = "roundrobin" /\ rrCalls.recordType = last.recordType
    /\ Cardinality(Candidates(last.recordType)) = MaxBackends
    /\ last.call = MaxBackends

\* the orderings of the candidates' addresses
Orderings(S) ==
    {[k \in 1 .. Cardinality(S) |-> backends[InOrder(S)[p[k]]].Address] :
        p \in Permutations(1 .. Cardinality(S))}

\* C5: random returns every candidate's address exactly once and nothing
\* else, and before the call every ordering of the candidates is a possible
\* answer.
C5_RandomPermutation ==
    /\ (Picked /\ mode = "random") =>
          /\ last.ok = (Candidates(last.recordType) # {})
          /\ Returned = AddressesOf(Candidates(last.recordType))
          /\ Len(last.ips) = Cardinality(Candidates(last.recordType))
    /\ (mode = "random" /\ ~last.called) =>
          \A recordType \in RecordTypes :
              \A o \in Orderings(Candidates(recordType)) :
                  o # <<>> =>
                      ENABLED (QueryRandom /\ last'.recordType = recordType
                                           /\ last'.ips = o)

\* C5 witness: a random answer that lists all the backends in an order other
\* than the list order.
C5_Witness ==
    /\ Picked /\ mode = "random" /\ Len(last.ips) = MaxBackends
    /\ last.ips # [k \in Positions |-> backends[k].Address]

\* effective weight and the prefix sums of the eligible candidates
EffectiveWeight(i) == IF backends[i].Weight >= 1 THEN backends[i].Weight ELSE 1
RECURSIVE SumWeights(_)
SumWeights(S) ==
    IF S = {} THEN 0 ELSE EffectiveWeight(Least(S)) + SumWeights(S \ {Least(S)})
UpTo(S, i) == {j \in S : j <= i}

\* C6: weighted returns exactly one address, that of the first eligible
\* candidate whose cumulative effective weight exceeds the draw r, for the
\* draw r in [0, T).
C6_WeightedRoulette ==
    (Picked /\ mode = "weighted" /\ Candidates(last.recordType) # {}) =>
        LET cand == Candidates(last.recordType)
            hit == {i \in cand : SumWeights(UpTo(cand, i)) > last.randVal}
        IN  /\ last.randVal \in 0 .. SumWeights(cand) - 1
            /\ last.ok
            /\ last.ips = <<backends[Least(hit)].Address>>

\* C6 witness: a draw that skips a first candidate of declared weight 0
\* (counted as 1) and lands on the second candidate.
C6_Witness ==
    /\ Picked /\ mode = "weighted" /\ last.ok
    /\ Cardinality(Candidates(last.recordType)) = MaxBackends
    /\ backends[1].Weight = 0
    /\ last.randVal = 1
    /\ last.ips = <<backends[2].Address>>

Distance(c1, c2) == IF c1 < c2 THEN c2 - c1 ELSE c1 - c2

\* C8: pickBackendWithNearestCoordinates returns exactly one address, the first
\* candidate with coordinates at minimum distance from the client, and an
\* error when no candidate has coordinates.
C8_NearestCoordinates ==
    (last.called /\ last.fn = "pickBackendWithNearestCoordinates") =>
        LET cand == {i \in Candidates(last.recordType) : backends[i].CoordinatesSet}
            nearest == {i \in cand : \A j \in cand :
                            Distance(last.clientCoord, backends[i].Coord)
                                <= Distance(last.clientCoord, backends[j].Coord)}
        IN  IF cand = {} THEN ~last.ok /\ last.ips = <<>>
            ELSE last.ok /\ last.ips = <<backends[Least(nearest)].Address>>

\* C8 witness: two candidates with coordinates at different distances, the
\* nearer one listed second, and it is the one returned.
C8_Witness ==
    /\ last.called /\ last.fn = "pickBackendWithNearestCoordinates" /\ last.ok
    /\ \A i \in {1, 2} : i \in Candidates(last.recordType) /\ backends[i].CoordinatesSet
    /\ Distance(last.clientCoord, backends[2].Coord)
          < Distance(last.clientCoord, backends[1].Coord)
    /\ last.ips = <<backends[2].Address>>

\* C8 second witness case: no candidate has coordinates although a healthy
\* backend of the family exists, and the call fails.
C8_ErrorReached ==
    /\ last.called /\ last.fn = "pickBackendWithNearestCoordinates" /\ ~last.ok
    /\ Candidates(last.recordType) # {}

\* the backends each GeoIP tier matches for the client of the last call:
\* healthy backends whose attribute equals what the tier finds for the client
CountryMatches ==
    {i \in Positions : /\ Healthy(i) /\ geo.CountryDB
                       /\ ~CountryLookup(last.clientIP).err
                       /\ CountryLookup(last.clientIP).IsoCode # ""
                       /\ backends[i].Country = CountryLookup(last.clientIP).IsoCode}
CityMatches ==
    {i \in Positions : /\ Healthy(i) /\ geo.CityDB
                       /\ ~CityLookup(last.clientIP).err
                       /\ CityLookup(last.clientIP).Name # ""
                       /\ backends[i].City = CityLookup(last.clientIP).Name}
ASNMatches ==
    {i \in Positions : /\ Healthy(i) /\ geo.ASNDB
                       /\ ~ASNLookup(last.clientIP).err
                       /\ ASNLookup(last.clientIP).AutonomousSystemNumber # 0
                       /\ backends[i].ASN =
                             ToString(ASNLookup(last.clientIP).AutonomousSystemNumber)}
LocationMatchSet ==
    {i \in Positions : /\ Healthy(i)
                       /\ \E sn \in DOMAIN geo.LocationMap :
                             /\ SubnetContains(sn, last.clientIP)
                             /\ backends[i].Location = geo.LocationMap[sn]}
\* the match sets in tier order, and the first tier that has a match
TierMatches == <<CountryMatches, CityMatches, ASNMatches, LocationMatchSet>>
FirstTier ==
    IF \E t \in 1 .. 4 : TierMatches[t] # {}
    THEN CHOOSE t \in 1 .. 4 : TierMatches[t] # {} /\ \A u \in 1 .. t - 1 : TierMatches[u] = {}
    ELSE 0

\* C9: the GeoIP answer comes from the first tier, in the order country, city,
\* ASN, custom location, that has a matching healthy backend.
C9_GeoIPTierOrder ==
    (Picked /\ mode = "geoip" /\ FirstTier # 0) =>
        /\ last.ok
        /\ last.ips # <<>>
        /\ Returned \subseteq AddressesOf(TierMatches[FirstTier])

\* C9 witness: one backend matches the client's city only, a later backend its
\* country only, and the country match is the answer.
C9_Witness ==
    /\ Picked /\ mode = "geoip"
    /\ CountryMatches # {} /\ CityMatches # {}
    /\ Least(CityMatches) < Least(CountryMatches)
    /\ CountryMatches \cap CityMatches = {}
    /\ last.ips = <<backends[Least(CountryMatches)].Address>>

\* C10 (as claimed): whichever tier matches, the answer is exactly one
\* address, that of the first matching backend in list order.
C10_GeoIPSingleAnswer ==
    (Picked /\ mode = "geoip" /\ FirstTier # 0) =>
        last.ips = <<backends[Least(TierMatches[FirstTier])].Address>>

\* The country, city and ASN tiers do answer with the first match only.
C10_DatabaseTiersSingle ==
    (Picked /\ mode = "geoip" /\ FirstTier \in 1 .. 3) =>
        last.ips = <<backends[Least(TierMatches[FirstTier])].Address>>

\* what pickBackendWithFailover may return for the record and the record type
\* of the last call (one result per order sort.Slice may leave)
FailoverResults ==
    {pickBackendWithFailover(backends, last.recordType, perm) :
        perm \in SortOutcomes(backends)}

\* C11: when no GeoIP tier has a matching healthy backend (also when no
\* database and no location map are configured), the GeoIP answer is a result
\* pickBackendWithFailover gives for the same record, record type and health
\* state, the error included.
C11_GeoIPFallbackIsFailover ==
    (Picked /\ mode = "geoip" /\ FirstTier = 0) =>
        [ok |-> last.ok, ips |-> last.ips] \in FailoverResults

\* C11 witness: the databases are loaded and a backend carries the client's
\* country but is not healthy, so no tier matches and the failover answer
\* (another backend) is given.
C11_Witness ==
    /\ Picked /\ mode = "geoip" /\ geo = GeoLoaded /\ FirstTier = 0
    /\ \E i \in Positions :
          /\ ~Healthy(i) /\ ~CountryLookup(last.clientIP).err
          /\ backends[i].Country = "GB"
          /\ CountryLookup(last.clientIP).IsoCode = "GB"
    /\ last.ok /\ Len(last.ips) = 1

\* C11 second case: nothing is configured and no backend is a candidate: the
\* failover error is the answer.
C11_AbsentReached ==
    /\ Picked /\ mode = "geoip" /\ geo = GeoAbsent /\ ~last.ok
    /\ \E i \in Positions : Healthy(i)

\* C12: failover, round-robin, random, weighted and fastest fail exactly when
\* the record has no healthy backend of the requested family, and answer a
\* non-empty list otherwise.
C12_ErrorIffNoCandidate ==
    (Picked /\ mode \in {"failover", "roundrobin", "random", "weighted", "fastest"}) =>
        /\ last.ok = (Candidates(last.recordType) # {})
        /\ last.ok => Len(last.ips) >= 1
        /\ ~last.ok => last.ips = <<>>

\* C12 witness: a fastest query fails although the record holds a healthy
\* backend, of the other family.
C12_Witness ==
    /\ Picked /\ mode = "fastest" /\ ~last.ok
    /\ \E i \in Positions : Healthy(i)

\* the enabled backends of the requested family, alive or not
EnabledOfFamily(recordType) ==
    {i \in Positions : backends[i].Enable /\ backends[i].Address.fam = FamilyOf(recordType)}
\* the addresses of the positions S, in configured order
AddressList(S) == [k \in 1 .. Cardinality(S) |-> backends[InOrder(S)[k]].Address]

\* C13: pickAllAddresses returns, in configured order, exactly the addresses of
\* the enabled backends of the requested family, alive or not, and an error
\* when the domain has no record or no such backend exists.
C13_AllEnabledAddresses ==
    (last.called /\ last.fn = "pickAllAddresses") =>
        IF last.domain # Fqdn \/ EnabledOfFamily(last.recordType) = {}
        THEN ~last.ok /\ last.ips = <<>>
        ELSE last.ok /\ last.ips = AddressList(EnabledOfFamily(last.recordType))

\* C13 witness: the list holds a backend that is not alive and leaves out a
\* disabled backend of the same family.
C13_Witness ==
    /\ last.called /\ last.fn = "pickAllAddresses" /\ last.ok
    /\ \E i, j \in Positions :
          /\ backends[i].Enable /\ ~backends[i].Alive
          /\ ~backends[j].Enable
          /\ backends[i].Address.fam = FamilyOf(last.recordType)
          /\ backends[j].Address.fam = FamilyOf(last.recordType)
          /\ last.ips = <<backends[i].Address>>

\* C13 second case: the domain has no record although the zone is served
C13_UnknownDomainReached ==
    /\ last.called /\ last.fn = "pickAllAddresses" /\ ~last.ok
    /\ last.domain # Fqdn /\ EnabledOfFamily(last.recordType) # {}

\* an A or AAAA question on the managed record went through handleIPRecord
Handled == reply.served /\ reply.stage \in {"picked", "fallback"}

C14_ServfailReached ==
    /\ Handled /\ reply.rcode = "SERVFAIL" /\ reply.writeOk
    /\ \E i \in Positions : Healthy(i)

KnownModes ==
    {"failover", "roundrobin", "random", "geoip", "weighted", "nearest", "closest", "fastest"}

\* C15 (as claimed): a question for a record of unknown mode fails to resolve:
\* no backend address of the record is answered.
C15_UnknownModeFails ==
    (reply.served /\ reply.domain = Fqdn /\ reply.qtype \in RecordTypes
        /\ mode \notin KnownModes) =>
        /\ reply.answer = <<>>
        /\ reply.rcode # "NOERROR"

\* pickResponse itself does fail for an unknown mode
C15_PickResponseFails ==
    (Picked /\ mode \notin KnownModes) => ~last.ok /\ last.ips = <<>>

\* ------------------------------------------------- health checks, scheduler
Probed == 1 .. Len(backends)

\* C16: after a runHealthChecks call completes for a backend, the backend is
\* alive exactly if every configured probe returned true before its timeout;
\* with no probe configured it is alive.
C16_AliveIffAllProbesSucceeded ==
    \A b \in Probed :
        done[b].completed =>
            /\ backends[b].Alive = done[b].allTrue
            /\ Len(backends[b].HealthChecks) = 0 => backends[b].Alive

\* C16 witness: a backend with MaxProbes probes, one of which returned false,
\* was written not alive although another probe had returned true.
C16_Witness ==
    \E b \in Probed :
        /\ done[b].completed /\ ~done[b].allTrue /\ ~done[b].timedOut
        /\ Len(backends[b].HealthChecks) = MaxProbes
        /\ ~backends[b].Alive

\* C16 second and third case: all probes returned true; no probe configured
C16_AliveReached ==
    \E b \in Probed :
        /\ done[b].completed /\ Len(backends[b].HealthChecks) = MaxProbes
        /\ backends[b].Alive
C16_NoProbeReached ==
    \E b \in Probed :
        done[b].completed /\ Len(backends[b].HealthChecks) = 0 /\ backends[b].Alive

\* the runHealthChecks call started by the scheduler's turn id is in flight
InFlight(b, id) == \E k \in 1 .. Len(cycles[b]) : cycles[b][k].id = id

\* C17: every runHealthChecks call completes, whether its probes return or
\* not, and a call in which a probe timed out writes the backend not alive.
C17_CycleCompletes ==
    /\ \A id \in 1 .. MaxTime :
          (\E b \in Idx : InFlight(b, id)) ~> (\A b \in Idx : ~InFlight(b, id))
    /\ [](\A b \in Probed : (done[b].completed /\ done[b].timedOut) => ~backends[b].Alive)

\* C17 witness: a call completed in which a probe never returned in time, on a
\* backend with MaxProbes probes.
C17_Witness ==
    \E b \in Probed :
        /\ done[b].completed /\ done[b].timedOut
        /\ Len(backends[b].HealthChecks) = MaxProbes
        /\ ~backends[b].Alive

\* a turn of the scheduler's loop is taken in this step
TickStep == sched'.ticks = sched.ticks + 1
BaseInterval == conf.ScrapeInterval
SlowInterval == conf.ScrapeInterval * conf.HealthcheckIdleMultiplier
\* a question for the record has been received; reply.at is when
Queried == reply.served /\ reply.domain = Fqdn

C18_BaseReached ==
    /\ Queried /\ sched.ticks > 1
    /\ sched.tickAt >= reply.at
    /\ sched.tickAt - reply.at <= conf.ResolutionIdleTimeout
    /\ conf.HealthcheckIdleMultiplier > 1
    /\ sched.wake = sched.tickAt + BaseInterval

\* C19 (as claimed): when a query arrives while the record is probed at the
\* slowed interval, the first tick that follows chooses scrape_interval.
C19_ResumesOnNextTick ==
    [][(/\ TickStep
        /\ sched.interval = SlowInterval /\ SlowInterval > BaseInterval
        /\ Queried /\ reply.at > sched.tickAt)
          => sched'.interval = BaseInterval]_vars

\* The tick after a query does choose scrape_interval when the query is no
\* older than the idle timeout at that tick.
C19_ResumesWhenRecent ==
    [][(/\ TickStep
        /\ Queried /\ now - reply.at <= conf.ResolutionIdleTimeout)
          => sched'.interval = BaseInterval]_vars

\* C20: once the record's context is canceled no runHealthChecks call is
\* started; canceling leaves the calls in flight alone, and a call whose
\* probes are done can still write its result.
C20_NoCycleAfterCancel ==
    /\ [][/\ ctxDone["recordCtx"] =>
                /\ sched'.ticks = sched.ticks
                /\ \A b \in Idx : Len(cycles'[b]) <= Len(cycles[b])
          /\ (ctxDone'["recordCtx"] /\ ~ctxDone["recordCtx"]) => cycles' = cycles]_vars
    /\ [](\A b \in Idx : \A k \in 1 .. Len(cycles[b]) :
            cycles[b][k].wg = 0 => ENABLED FinishCycle(b, k))

\* C20 witness: a call in flight when the context was canceled completed
\* afterwards, and the timer's time has passed without a new call.
C20_Witness ==
    /\ ctxDone["recordCtx"]
    /\ \E b \in Probed : done[b].completed /\ done[b].afterCancel
    /\ now > sched.wake
    /\ \A b \in Idx : cycles[b] = <<>>

\* ---------------------------------------------------------------- reload
\* the step is a reload whose file was loaded without error
ReloadStep == event'.kind = "reload" /\ ~event'.err
\* the step is a reload that failed
FailedReloadStep == event'.kind = "reload" /\ event'.err
\* the backends of a registered record, with the entries they were configured from
RegisteredIds == {id \in DOMAIN heap : Registered(id)}
BothGiven(raw) == raw.latitude # <<>> /\ raw.longitude # <<>>
OneGiven(raw) == (raw.latitude = <<>>) # (raw.longitude = <<>>)

\* C21: a record that a reload no longer configures is removed from the
\* registry, its scheduler loop is canceled and no probe cycle of its
\* backends starts afterwards, whether the record was registered at the
\* initial load or by an earlier reload.
C21_RemovedRecordStops ==
    /\ [][ReloadStep /\ Zone \in DOMAIN Records => RegisteredNames' \subseteq event'.names]_vars
    /\ [](\A t \in tasks : Registered(t.rec))
    /\ [][event'.kind = "probe" => Registered(event'.rec)]_vars

\* C21, the part the code keeps: the name is removed from the registry, and
\* the loop of a record that the initial load had already started is canceled.
C21_StartedAtLoadStops ==
    [][ReloadStep /\ Zone \in DOMAIN Records =>
          /\ RegisteredNames' \subseteq event'.names
          /\ \A t \in tasks :
                (/\ t.ctx = StartContext
                 /\ Registered(t.rec)
                 /\ t.rec.name \notin RegisteredNames') => t \notin tasks']_vars

\* a probe cycle has run for a record that an earlier reload had added and a
\* later reload removed
C21_ProbedAfterRemoval ==
    /\ event.kind = "probe" /\ ~Registered(event.rec) /\ event.rec.born > 0
    /\ \E t \in tasks : t.rec = event.rec /\ t.ctx = ReloadContext
    /\ \E i \in 1 .. Len(heap[event.rec].Backends) :
          heap[event.rec].Backends[i].LastHealthcheck = now

\* a record was removed before its group was started, and started afterwards
C21_StartedAfterRemoval ==
    /\ event.kind = "start" /\ ~Registered(event.rec)
    /\ \E t \in tasks : t.rec = event.rec /\ t.ctx = StartContext

\* C22: a reload leaves Alive, LastHealthcheck and ResponseTime of every
\* backend that the record has before and after it (same record, same
\* address) as they were, whatever else of the backend it changes.
C22_ReloadKeepsHealth ==
    [][event'.kind = "reload" =>
          \A n \in RegisteredNames \cap RegisteredNames' :
              LET old == heap[Records[Zone][n]].Backends
                  new == heap'[Records'[Zone][n]].Backends
              IN  /\ Records'[Zone][n] = Records[Zone][n]
                  /\ \A i \in 1 .. Len(old), j \in 1 .. Len(new) :
                        old[i].Address = new[j].Address =>
                            /\ new[j].Alive = old[i].Alive
                            /\ new[j].LastHealthcheck = old[i].LastHealthcheck
                            /\ new[j].ResponseTime = old[i].ResponseTime]_vars

\* a reload has changed the entry of a record whose backend was probed alive
\* before: the backend has the new priority, coordinates and health checks
C22_Witness ==
    /\ event.kind = "reload" /\ ~event.err
    /\ \E n \in event.changed :
          LET b == heap[Records[Zone][n]].Backends[1]
          IN  /\ heap[Records[Zone][n]].yaml = <<Moved>>
              /\ b.Priority = Moved.priority /\ b.CoordinatesSet
              /\ b.HealthChecks = Moved.healthchecks
              /\ b.Alive /\ b.LastHealthcheck > 0 /\ b.ResponseTime > 0

\* a reload with the same entry, after the backend was probed
C22_IdenticalReached ==
    /\ event.kind = "reload" /\ ~event.err /\ event.changed = {}
    /\ \E n \in event.names \cap RegisteredNames :
          \E i \in 1 .. Len(heap[Records[Zone][n]].Backends) :
              /\ heap[Records[Zone][n]].Backends[i].Alive
              /\ heap[Records[Zone][n]].Backends[i].LastHealthcheck > 0

\* C23: a reload that fails leaves the registry, the records, the scheduler
\* loops and their contexts as they were.
C23_FailedReloadChangesNothing ==
    [][FailedReloadStep => UNCHANGED <<Records, heap, tasks, canceled, waiting>>]_vars

\* a reload failed on a name that is not under the zone while records were
\* registered and probed
C23_Witness ==
    /\ event.kind = "reload" /\ event.err
    /\ Stranger \in event.names /\ event.names \cap Names # {}
    /\ RegisteredNames # {} /\ tasks # {}

\* a reload failed on a file that could not be read
C23_UnreadableReached ==
    /\ event.kind = "reload" /\ event.err /\ event.names = {}
    /\ RegisteredNames # {}

\* C24: after a reload whose file was loaded without error the names
\* registered for the zone are the names of the file, and every name the
\* reload added has a scheduler loop, whatever was registered before,
\* nothing included (the zone's initial load had failed).
C24_ReloadRegistersFileNames ==
    [][ReloadStep =>
          /\ RegisteredNames' = event'.names
          /\ \A n \in event'.names \ RegisteredNames :
                \E t \in tasks' : t.rec = Records'[Zone][n]]_vars

\* C24 where the initial load had created the zone's map
C24_ReloadOfLoadedZone ==
    [][ReloadStep /\ Zone \in DOMAIN Records =>
          /\ RegisteredNames' = event'.names
          /\ \A n \in event'.names \ RegisteredNames :
                \E t \in tasks' : t.rec = Records'[Zone][n]]_vars

\* C29: every registered record has at least one backend.
C29_RegisteredRecordHasBackends ==
    \A id \in RegisteredIds : Len(heap[id].Backends) > 0

\* C30: the CoordinatesSet flag of a registered backend is true iff its latest
\* entry gives both latitude and longitude, and then the backend has the
\* entry's latitude and longitude; an entry that gives exactly one of the two
\* is rejected.
C30_CoordinatesSetIffBothGiven ==
    /\ \A raw \in RawBackends : UnmarshalYAML(raw).err = OneGiven(raw)
    /\ \A id \in RegisteredIds :
          /\ Len(heap[id].Backends) = Len(heap[id].yaml)
          /\ \A i \in 1 .. Len(heap[id].Backends) :
                LET b == heap[id].Backends[i]
                    raw == heap[id].yaml[i]
                IN  /\ b.Address = raw.address
                    /\ ~OneGiven(raw)
                    /\ b.CoordinatesSet = BothGiven(raw)
                    /\ b.CoordinatesSet =>
                          b.Latitude = raw.latitude[1] /\ b.Longitude = raw.longitude[1]

\* a reload gave coordinates to a backend that was loaded without them
C30_Witness ==
    /\ event.kind = "reload" /\ ~event.err
    /\ \E n \in event.changed :
          /\ Records[Zone][n].born = 0
          /\ \E i \in 1 .. Len(heap[Records[Zone][n]].Backends) :
                LET b == heap[Records[Zone][n]].Backends[i]
                IN  b.CoordinatesSet /\ b.Latitude = 1 /\ b.Longitude = 0

\* a reload took the coordinates of a backend away
C30_ClearedReached ==
    /\ event.kind = "reload" /\ ~event.err
    /\ \E n \in event.changed :
          /\ heap[Records[Zone][n]].yaml = <<Plain>>
          /\ ~heap[Records[Zone][n]].Backends[1].CoordinatesSet
          /\ heap[Records[Zone][n]].Backends[1].LastHealthcheck > 0

\* ----------------------------------------------------------------- locks
\* the goroutine holds the lock, for reading or for writing
Holds(p, on) == TheLock(on).writer = p \/ p \in TheLock(on).readers
\* p waits for the registry lock that q holds
BlockedBy(p, q) ==
    \/ At(p, "Lock", "Mutex") /\ (Mutex.writer = q \/ q \in Mutex.readers)
    \/ At(p, "RLock", "Mutex") /\ Mutex.writer = q
HealthFields == {"Alive", "LastHealthcheck", "ResponseTime"}
RegistryFields == {"Records", "Backends"}

\* C25: a query takes the registry lock for reading only, so that no query
\* ever waits for another query.
C25_QueriesOnlyReadLock ==
    \A q1 \in Queries, q2 \in Queries : Mutex.writer # q1 /\ ~BlockedBy(q1, q2)

\* C25, the part the code keeps: a query that holds the registry lock for
\* writing is a round-robin or a random query.
C25_OnlyRoundRobinAndRandomWrite ==
    \A q \in Queries : Mutex.writer = q => pc[q].prog \in {"roundrobin", "random"}

\* C26: a reload reads and parses the file without holding the registry lock,
\* so that no query waits for the lock during the file input.
C26_NoLockAcrossFileIO ==
    \A p \in Procs : At(p, "io", "file") =>
        /\ ~Holds(p, "Mutex")
        /\ \A q \in Queries : ~BlockedBy(q, p)

\* C27: a query reads the registry map and a record's backend list holding the
\* registry lock, so that it never reads them while a reload writes them.
C27_RegistryReadsOrdered ==
    \A q \in Queries, on \in RegistryFields :
        At(q, "read", on) =>
            /\ Holds(q, "Mutex")
            /\ ~At("reload", "write", "Records")

\* C28: Alive, LastHealthcheck and ResponseTime of a backend are written
\* holding the backend's lock for writing and read holding it.
C28_HealthFieldsUnderLock ==
    \A p \in Procs, on \in HealthFields :
        /\ At(p, "write", on) => mutex.writer = p
        /\ At(p, "read", on) => Holds(p, "mutex")

\* C28, the part the code keeps: the writes, and the reads of IsHealthy and
\* GetResponseTime, hold the backend's lock.
C28_WritesUnderLock ==
    \A p \in Procs, on \in HealthFields :
        /\ At(p, "write", on) => mutex.writer = p
        /\ At(p, "read", on) /\ ~Holds(p, "mutex") =>
              \/ p = "probe" /\ on = "Alive"
              \/ pc[p].prog = "TXT" /\ on = "LastHealthcheck"

\* a round-robin query waits for the registry lock another round-robin query holds
C25_QueryWaitsForQuery ==
    /\ pc["q1"].prog = "roundrobin" /\ pc["q2"].prog = "roundrobin"
    /\ Mutex.writer = "q2" /\ BlockedBy("q1", "q2")

\* a query waits for the registry lock while the reload reads the file
C26_QueryWaitsDuringFileIO ==
    /\ At("reload", "io", "file") /\ Mutex.writer = "reload"
    /\ \E q \in Queries : BlockedBy(q, "reload")

\* a query reads the registry map while the reload writes it
C27_ReadDuringWrite ==
    /\ At("reload", "write", "Records")
    /\ \E q \in Queries : At(q, "read", "Records") /\ ~Holds(q, "Mutex")

\* a TXT query reads LastHealthcheck, without the lock, while the health
\* check cycle writes it
C28_ReadDuringWrite ==
    /\ At("probe", "write", "LastHealthcheck")
    /\ \E q \in Queries : At(q, "read", "LastHealthcheck") /\ ~Holds(q, "mutex")

\* ------------------------------------------------------- HTTP health check
\* the attempt has the expected status and, when a body is expected, that body
Matching(c, resp) ==
    /\ resp.err = FALSE
    /\ resp.StatusCode = ExpectedCode
    /\ c.h.ExpectedBody = "" \/ c.h.ExpectedBody = resp.Body
\* the call got as far as its retry loop
RequestMade(c) == c.h.Timeout = "5s" /\ c.h.Method = "GET"

C31_TriedOnce ==
    /\ check.at = "returned" /\ ~check.result /\ check.maxRetries = 0
    /\ Len(check.attempts) = 1

\* --------------------------------------------------------- staggered start
\* the groups partition the records into batches of batch_size, the last one
\* possibly shorter
Partitioned ==
    LET B == Len(stagger.groups)
    IN  /\ \A i \in 1 .. B :
               /\ Len(stagger.groups[i]) \in 1 .. stagger.batchSize
               /\ i < B => Len(stagger.groups[i]) = stagger.batchSize
        /\ \A r \in 1 .. Len(stagger.order) :
               Cardinality({ik \in (1 .. B) \X (1 .. stagger.batchSize) :
                               /\ ik[2] <= Len(stagger.groups[ik[1]])
                               /\ stagger.groups[ik[1]][ik[2]] = r}) = 1
\* group i (counted from 1) waits (i - 1) * (max_stagger / B) and is not started earlier
EvenlySpaced ==
    LET B == Len(stagger.groups)
    IN  \A i \in 1 .. B :
           /\ stagger.delays[i] = (i - 1) * Quo(stagger.maxStagger, B)
           /\ stagger.started[i] >= 0 => stagger.started[i] >= stagger.delays[i]

\* C32: the loaded records are partitioned into batches of at most batch_size
\* (all but the last of exactly batch_size), each record in exactly one batch;
\* batch i of B starts after the delay i * (max_stagger / B), and every offset
\* is strictly less than max_stagger.
C32_OffsetsBelowMaxStagger ==
    stagger.at = "batched" =>
       /\ Partitioned
       /\ EvenlySpaced
       /\ \A i \in 1 .. Len(stagger.groups) : stagger.delays[i] < stagger.maxStagger

\* C32 as the code has it: the offsets are strictly less than max_stagger when
\* max_stagger is positive; a max_stagger of zero or less gives offsets between
\* max_stagger and zero, and no group waits.
C32_OffsetsWithinWindow ==
    stagger.at = "batched" =>
       /\ Partitioned
       /\ EvenlySpaced
       /\ \A i \in 1 .. Len(stagger.groups) :
              IF stagger.maxStagger > 0
              THEN stagger.delays[i] >= 0 /\ stagger.delays[i] < stagger.maxStagger
              ELSE stagger.delays[i] <= 0 /\ stagger.delays[i] >= stagger.maxStagger

\* two groups, the last one shorter, the second started at its positive offset
C32_Witness ==
    /\ stagger.at = "batched" /\ stagger.maxStagger > 0
    /\ Len(stagger.groups) = 2
    /\ Len(stagger.groups[2]) < stagger.batchSize
    /\ stagger.delays[2] > 0 /\ stagger.started[2] = stagger.delays[2]

\* ------------------------------------------------------------ location map
\* the subnets the file lists, and the location of the last entry of a subnet
ListedSubnets(file) == {file.subnets[i].Subnet : i \in 1 .. Len(file.subnets)}
ListedLocation(file, s) ==
    LET k == CHOOSE i \in 1 .. Len(file.subnets) :
                   /\ file.subnets[i].Subnet = s
                   /\ \A j \in 1 .. Len(file.subnets) : file.subnets[j].Subnet = s => j <= i
    IN  file.subnets[k].Location

\* C33: loadCustomLocationsMap replaces the map wholesale or not at all: on
\* success the map holds exactly the file's entries, with an empty path it
\* becomes nil, and when the file cannot be read or parsed an error is
\* returned and the previous map is left unchanged.
C33_MapReplacedWholesale ==
    mapLoad.calls > 0 =>
       IF mapLoad.path = "" THEN ~mapLoad.err /\ LocationMap.nil
       ELSE IF mapLoad.file.kind # "yaml" THEN mapLoad.err /\ LocationMap = mapLoad.before
       ELSE /\ ~mapLoad.err
            /\ ~LocationMap.nil
            /\ DOMAIN LocationMap.m = ListedSubnets(mapLoad.file)
            /\ \A s \in DOMAIN LocationMap.m :
                   LocationMap.m[s] = ListedLocation(mapLoad.file, s)

\* a reload from a file that no longer lists a subnet of the previous map
C33_Witness ==
    /\ mapLoad.calls = 2 /\ ~mapLoad.err /\ mapLoad.path # ""
    /\ \E s \in DOMAIN mapLoad.before.m : s \notin DOMAIN LocationMap.m
    /\ LocationMap.m # NilMap.m
\* a reload failed and the map loaded before is still there
C33_FailedReached ==
    /\ mapLoad.calls = 2 /\ mapLoad.err
    /\ LocationMap.m # NilMap.m

\* ------------------------------------------------ round-robin, both families
\* the answers to the queries of one record type, in the order they were given
AnswersOf(recordType) == SelectSeq(answers, LAMBDA a : a.recordType = recordType)
\* the addresses of the healthy backends of the record type's family
HealthyAddresses(recordType) ==
    {GetAddress(backends[i]) :
        i \in {j \in 1 .. Len(backends) :
                  IsHealthy(backends[j]) /\ FamilyMatch(recordType, GetAddress(backends[j]))}}

\* C34: in a round-robin sequence that mixes A and AAAA queries for a record
\* with healthy backends of both families, the answers of either family taken
\* alone return every healthy backend of the family once per N consecutive
\* queries of the family, N being the number of those backends.
C34_FamiliesRotateApart ==
    \A recordType \in RecordTypes :
        LET given == AnswersOf(recordType)
            N == Cardinality(HealthyAddresses(recordType))
        IN  \A k \in 1 .. Len(given) :
               k + N - 1 <= Len(given) =>
                  {given[j].ips[1] : j \in k .. k + N - 1} = HealthyAddresses(recordType)

\* what the shared cursor keeps: every answer is one healthy backend of the
\* family asked for
C34_AnswersAreCandidates ==
    \A i \in 1 .. Len(answers) :
        /\ Len(answers[i].ips) = 1
        /\ answers[i].ips[1] \in HealthyAddresses(answers[i].recordType)

\* two A queries with an AAAA query between them got the same answer although
\* the record has another healthy IPv4 backend
C34_SameAnswerTwice ==
    /\ Len(answers) = 3
    /\ answers[1].recordType = "A" /\ answers[2].recordType = "AAAA"
    /\ answers[3].recordType = "A"
    /\ answers[1].ips = answers[3].ips
    /\ Cardinality(HealthyAddresses("A")) = 2

\* ------------------------------------------- removal before the delayed start
\* C35: a record that a reload removes before its start group is released
\* never gets a scheduler loop: every loop the delayed start has begun belongs
\* to a record of the registry.
C35_DelayedStartSkipsRemoved ==
    \A t \in tasks : t.ctx = StartContext => Registered(t.rec)

\* a probe cycle ran for a record of the initial load that a reload had
\* removed while the record was still waiting for its group's delay
C35_ProbedAfterLateStart ==
    /\ event.kind = "probe" /\ ~Registered(event.rec) /\ event.rec.born = 0
    /\ [rec |-> event.rec, ctx |-> StartContext] \in tasks
    /\ event.rec \notin canceled

\* ----------------------------------------------- a reload beside a goroutine
\* C36: a probe cycle that runs while a reload replaces the backend's probe
\* list never writes a result outside its result vector: the probes it runs
\* are those the vector was sized for.
C36_ResultsFitProbes ==
    LET f == frames.runHealthChecks
    IN  /\ ~f.panic
        /\ f.at \in {"wait", "returned"} => Len(f.probes) = f.results

\* the cycle sized its results for one list and ranged over a longer one that
\* a reload had stored in between, and the assignment of a result panicked
C36_IndexOutOfRange ==
    LET f == frames.runHealthChecks
    IN  /\ f.panic /\ frames.reloads = 1
        /\ f.results < Len(f.probes)
        /\ f.probes = shared[ProbedBackend].HealthChecks

\* C37: pickBackendWithWeighted returns exactly one address whenever an
\* eligible backend exists, also when a reload changes weights during the
\* selection: the exit `weighted selection failed` is never taken.
C37_WeightedAlwaysPicks ==
    LET f == frames.weighted
    IN  f.at = "returned" => f.err = "" /\ Len(f.ips) = 1

\* a selection drew its number for the weights it had summed, a reload lowered
\* a weight, and the wheel ended below the number
C37_SelectionFailed ==
    LET f == frames.weighted
    IN  /\ f.at = "returned" /\ f.err = "weighted selection failed"
        /\ frames.reloads = 1
        /\ f.cumulative <= f.randVal /\ f.randVal < f.totalWeight

\* ------------------------------------------------------------ initial load
\* C38: the initial load of a zone file is all-or-nothing: when loadConfigFile
\* returns an error for the file, no record of the file is registered or
\* scheduled for probing.
C38_FailedLoadRegistersNothing ==
    (event.kind = "load" /\ event.err) => RegisteredNames = {} /\ waiting = {}

\* the load failed on one entry of the file, and another entry of the file is
\* registered and batched for its start
C38_PartialLoadRegistered ==
    /\ event.kind = "load" /\ event.err
    /\ RegisteredNames # {} /\ RegisteredNames \subseteq event.names
    /\ RegisteredNames # event.names
    /\ waiting = {Records[Zone][n] : n \in RegisteredNames}

\* ------------------------------------------------------------- two zones
\* C39: reloading the file of one zone changes only that zone: the records,
\* backends, health state and scheduler loops of the other zone are as they
\* were.
C39_ReloadLeavesOtherZone ==
    [][event'.kind = "reload" =>
          /\ OtherZone \in DOMAIN Records'
          /\ Records'[OtherZone] = Records[OtherZone]
          /\ \A n \in DOMAIN Records[OtherZone] :
                LET id == Records[OtherZone][n]
                IN  /\ id \in DOMAIN heap' /\ heap'[id] = heap[id]
                    /\ {t \in tasks' : t.rec = id} = {t \in tasks : t.rec = id}
                    /\ id \in waiting' <=> id \in waiting
                    /\ id \in canceled' <=> id \in canceled]_vars

\* a reload has added a record to the first zone and removed another while the
\* record of the other zone, probed and alive, keeps its loop
C39_Witness ==
    /\ event.kind = "reload" /\ ~event.err
    /\ \E n \in RegisteredNames : Records[Zone][n].born > 0
    /\ \E id \in DOMAIN heap : id.born = 0 /\ id.name \in Names /\ ~Registered(id)
    /\ [rec |-> OtherRecord, ctx |-> StartContext] \in tasks
    /\ heap[OtherRecord].Backends[1].Alive
    /\ heap[OtherRecord].Backends[1].LastHealthcheck > 0

\* --------------------------------------------------------------- deadlock
\* the goroutine waits at an acquisition of the lock
Acquiring(p, on) == At(p, "Lock", on) \/ At(p, "RLock", on)
Waiting(p) == \E on \in LockNames : Acquiring(p, on)

\* C40: every acquisition of the registry lock and of a backend lock is
\* eventually granted; a goroutine that holds a backend lock never acquires
\* the registry lock (the locks nest registry first, backend second); and no
\* lock is held while a probe result is waited for.
C40_NoDeadlock ==
    /\ \A p \in AllProcs : Waiting(p) ~> ~Waiting(p)
    /\ [](\A p \in AllProcs : Holds(p, "mutex") => ~Acquiring(p, "Mutex"))
    /\ [](\A p \in AllProcs :
             At(p, "io", "network") => ~Holds(p, "Mutex") /\ ~Holds(p, "mutex"))

\* a round-robin query holds the registry lock and waits for the backend lock
\* that the health check cycle holds, while the reload of the zone file and
\* the reload of the location map wait for the registry lock
C40_Witness ==
    /\ Mutex.writer = "query" /\ pc["query"].prog = "roundrobin"
    /\ At("query", "RLock", "mutex")
    /\ mutex.writer = "probe"
    /\ At("reload", "Lock", "Mutex")
    /\ At("locations", "Lock", "Mutex")
====
